---- MODULE Spec2Model ----
(***************************************************************************)
(* Cost-analytics dashboards: column detection, date bucketing, filtering  *)
(* and aggregation over an in-memory grid of spreadsheet cells.            *)
(*                                                                         *)
(* Strings are sequences of one-character strings, so that trimming,       *)
(* lower-casing, pattern matching and number parsing are computed          *)
(* character by character.  Numbers are exact rationals [n, d] with d > 0; *)
(* the record with d = 0 is NaN.  Rounding of IEEE doubles is not          *)
(* modelled.  The strings the model feeds to parseFloat and Number use     *)
(* only digits, sign, point, comma, blanks and letters that start no       *)
(* numeric literal: exponent, hexadecimal and "Infinity" forms are outside *)
(* the input sets.                                                         *)
(***************************************************************************)
EXTENDS Integers, Sequences, FiniteSets, TLC

VARIABLES
    rtTz,              \* runtime: local time zone offset from UTC, in hours
    rtLegacy,          \* runtime: what Date's non-ISO fallback parser yields
    rtBatched,         \* runtime: React root batches the setters of one callback
    rtReads,           \* runtime: the files of the FileReader reads in flight
    rawRows,           \* useState<RawRow[]>
    headerRow,         \* useState<string[] | null>
    warnings,          \* useState<string[]>
    metricsIdxs,       \* filtering dashboard: selected metric columns
    primaryMetricIdx,  \* filtering dashboard: number | null
    aggregation,       \* "sum" | "avg" | "count"
    dateIdx,           \* number | ""
    monthBucket,       \* boolean
    dateFormat,        \* "auto" or one of five fixed patterns
    selectedDims,      \* selected dimension columns, in selection order
    dimSearch,         \* text of the dimension search box
    topN,              \* useState<number>(6): a number >= 1, not always whole
    seriesVisible,     \* Record<string, boolean>
    filterRules,       \* FilterRule[]
    mapping,           \* mapping dashboards: {dateIdx, costIdx, serviceIdx} | null
    data,              \* mapping dashboards: CostData[]
    extraFields,       \* chart-mapping dashboard: string[]
    chartMapping,      \* chart-mapping dashboard: {pieGroupBy, valueField, dateField}
    previewRows,       \* mapping dashboards: CostData[]
    showModal,         \* mapping dashboards: boolean
    pc,                \* position of the component / of the function under check
    arg,               \* input of the function under check
    out                \* what the last operation computed

rtVars   == <<rtTz, rtLegacy, rtBatched, rtReads>>
gridVars == <<rawRows, headerRow, warnings>>
selVars  == <<metricsIdxs, primaryMetricIdx, aggregation, dateIdx, monthBucket,
              dateFormat, selectedDims, dimSearch, topN, seriesVisible, filterRules>>
mapVars  == <<mapping, data, extraFields, chartMapping, previewRows, showModal>>
fnVars   == <<pc, arg, out>>
vars     == <<rtVars, gridVars, selVars, mapVars, fnVars>>

-----------------------------------------------------------------------------
(* JavaScript values *)

Null == [k |-> "u", s |-> <<>>, n |-> 0]           \* undefined / null / a hole
StrCell(s) == [k |-> "s", s |-> s, n |-> 0]         \* typeof c === "string"
NumCell(n) == [k |-> "n", s |-> <<>>, n |-> n]      \* typeof c === "number" (an integer)

NaN == [n |-> 0, d |-> 0]
Rat(n, d) == [n |-> n, d |-> d]
Zero == Rat(0, 1)
One == Rat(1, 1)
IsNaN(x) == x.d = 0

RECURSIVE GCD(_, _)
GCD(a, b) == IF b = 0 THEN a ELSE GCD(b, a % b)

Abs(a) == IF a < 0 THEN -a ELSE a

RatNorm(n, d) ==
    LET g == GCD(Abs(n), d) IN IF g = 0 THEN Rat(0, 1) ELSE Rat(n \div g, d \div g)

\* a + b of two numbers
RatAdd(a, b) ==
    IF IsNaN(a) \/ IsNaN(b) THEN NaN ELSE RatNorm(a.n * b.d + b.n * a.d, a.d * b.d)

\* a / c for a count c > 0
RatDivInt(a, c) == IF IsNaN(a) THEN NaN ELSE RatNorm(a.n, a.d * c)

\* a <= b; any comparison with NaN is false
RatLE(a, b) == ~IsNaN(a) /\ ~IsNaN(b) /\ a.n * b.d <= b.n * a.d

RatGE0(a) == ~IsNaN(a) /\ a.n >= 0

\* x || 0 on a number: NaN and 0 are falsy
OrZero(x) == IF IsNaN(x) \/ x.n = 0 THEN Zero ELSE x

-----------------------------------------------------------------------------
(* Characters and strings *)

DigitSeq == <<"0", "1", "2", "3", "4", "5", "6", "7", "8", "9">>
UpperSeq == <<"A", "B", "C", "D", "E", "F", "G", "H", "I", "J", "K", "L", "M",
              "N", "O", "P", "Q", "R", "S", "T", "U", "V", "W", "X", "Y", "Z">>
LowerSeq == <<"a", "b", "c", "d", "e", "f", "g", "h", "i", "j", "k", "l", "m",
              "n", "o", "p", "q", "r", "s", "t", "u", "v", "w", "x", "y", "z">>

Range(f) == {f[i] : i \in DOMAIN f}
IsDigit(c) == c \in Range(DigitSeq)
IsAlpha(c) == c \in Range(UpperSeq) \cup Range(LowerSeq)
IsSpace(c) == c \in {" ", "\t", "\n"}
DigitVal(c) == (CHOOSE i \in DOMAIN DigitSeq : DigitSeq[i] = c) - 1

AllDigits(s) == \A i \in DOMAIN s : IsDigit(s[i])

\* String.prototype.toLowerCase, one character
LowerChar(c) ==
    IF c \in Range(UpperSeq)
    THEN LowerSeq[CHOOSE i \in DOMAIN UpperSeq : UpperSeq[i] = c]
    ELSE c

toLowerCase(s) == [i \in DOMAIN s |-> LowerChar(s[i])]

RECURSIVE TrimStart(_)
TrimStart(s) == IF s # <<>> /\ IsSpace(Head(s)) THEN TrimStart(Tail(s)) ELSE s

RECURSIVE TrimEnd(_)
TrimEnd(s) ==
    IF s # <<>> /\ IsSpace(s[Len(s)]) THEN TrimEnd(SubSeq(s, 1, Len(s) - 1)) ELSE s

\* String.prototype.trim
trim(s) == TrimEnd(TrimStart(s))

\* String.prototype.includes
includes(s, needle) ==
    \E i \in 1..(Len(s) - Len(needle) + 1) : SubSeq(s, i, i + Len(needle) - 1) = needle

\* s.replace(/,/g, "")
RECURSIVE StripCommas(_)
StripCommas(s) ==
    IF s = <<>> THEN <<>>
    ELSE IF Head(s) = "," THEN StripCommas(Tail(s))
    ELSE <<Head(s)>> \o StripCommas(Tail(s))

\* the decimal digits of a natural number
RECURSIVE NatToStr(_)
NatToStr(n) ==
    IF n < 10 THEN <<DigitSeq[n + 1]>> ELSE NatToStr(n \div 10) \o <<DigitSeq[(n % 10) + 1]>>

IntToStr(n) == IF n < 0 THEN <<"-">> \o NatToStr(-n) ELSE NatToStr(n)

\* s.padStart(2, "0")
padStart2(s) == IF Len(s) < 2 THEN <<"0">> \o s ELSE s

\* String(v) for a cell that is not null
String(v) == IF v.k = "s" THEN v.s ELSE IF v.k = "n" THEN IntToStr(v.n) ELSE <<>>

\* String(v ?? "")
StringOrEmpty(v) == IF v.k = "u" THEN <<>> ELSE String(v)

\* row[idx] of a JavaScript array, indices from 0; out of range is undefined
At(row, idx) == IF idx + 1 \in DOMAIN row THEN row[idx + 1] ELSE Null

\* the value of a run of digits
RECURSIVE DigitsVal(_)
DigitsVal(s) ==
    IF s = <<>> THEN 0 ELSE DigitsVal(SubSeq(s, 1, Len(s) - 1)) * 10 + DigitVal(s[Len(s)])

RECURSIVE Pow10(_)
Pow10(k) == IF k = 0 THEN 1 ELSE 10 * Pow10(k - 1)

\* the length of the longest prefix of s made of digits
RECURSIVE DigitRun(_)
DigitRun(s) == IF s # <<>> /\ IsDigit(Head(s)) THEN 1 + DigitRun(Tail(s)) ELSE 0

Drop(s, k) == SubSeq(s, k + 1, Len(s))
Take(s, k) == SubSeq(s, 1, k)

\* The longest prefix of t that is an unsigned decimal literal
\* (digits [. digits] or . digits), as [len, val]; len = 0 when there is none.
DecimalPrefix(t) ==
    LET i    == DigitRun(t)
        rest == Drop(t, i)
        hasP == rest # <<>> /\ Head(rest) = "."
        f    == IF hasP THEN DigitRun(Tail(rest)) ELSE 0
        ip   == DigitsVal(Take(t, i))
        fv   == IF hasP THEN DigitsVal(Take(Tail(rest), f)) ELSE 0
    IN  IF i = 0 /\ f = 0 THEN [len |-> 0, val |-> NaN]
        ELSE [len |-> i + (IF hasP THEN 1 + f ELSE 0),
              val |-> RatNorm(ip * Pow10(f) + fv, Pow10(f))]

RatNeg(x) == IF IsNaN(x) THEN NaN ELSE Rat(-x.n, x.d)

\* parseFloat(s): leading blanks skipped, the longest numeric prefix read
parseFloat(s) ==
    LET t    == TrimStart(s)
        neg  == t # <<>> /\ Head(t) = "-"
        sgn  == t # <<>> /\ Head(t) \in {"-", "+"}
        body == IF sgn THEN Tail(t) ELSE t
        p    == DecimalPrefix(body)
    IN  IF p.len = 0 THEN NaN ELSE IF neg THEN RatNeg(p.val) ELSE p.val

\* Number(s) of a string: blanks trimmed, "" is 0, the whole text must be a literal
NumberOfStr(s) ==
    LET t    == trim(s)
        neg  == t # <<>> /\ Head(t) = "-"
        sgn  == t # <<>> /\ Head(t) \in {"-", "+"}
        body == IF sgn THEN Tail(t) ELSE t
        p    == DecimalPrefix(body)
    IN  IF t = <<>> THEN Zero
        ELSE IF p.len = 0 \/ p.len # Len(body) THEN NaN
        ELSE IF neg THEN RatNeg(p.val) ELSE p.val

\* Number(v) of a cell: a number is itself, undefined is NaN
NumberOf(v) ==
    IF v.k = "n" THEN Rat(v.n, 1) ELSE IF v.k = "s" THEN NumberOfStr(v.s) ELSE NaN

-----------------------------------------------------------------------------
(* Calendar dates.  A Date is read only through getFullYear, getMonth and   *)
(* getDate, so a valid Date is its local calendar day [y, m, d], m in 1..12. *)

InvalidDate == [ok |-> FALSE, y |-> 0, m |-> 0, d |-> 0]      \* new Date(NaN)
DateOf(y, m, d) == [ok |-> TRUE, y |-> y, m |-> m, d |-> d]

IsLeap(y) == (y % 4 = 0 /\ y % 100 # 0) \/ y % 400 = 0

DaysInMonth(y, m) ==
    IF m = 2 THEN (IF IsLeap(y) THEN 29 ELSE 28)
    ELSE IF m \in {4, 6, 9, 11} THEN 30 ELSE 31

\* MakeDay: a day number outside the month rolls into the neighbouring months
RECURSIVE NormDay(_, _, _)
NormDay(y, m, d) ==
    IF d < 1
    THEN LET py == IF m = 1 THEN y - 1 ELSE y
             pm == IF m = 1 THEN 12 ELSE m - 1
         IN  NormDay(py, pm, d + DaysInMonth(py, pm))
    ELSE IF d > DaysInMonth(y, m)
    THEN LET ny == IF m = 12 THEN y + 1 ELSE y
             nm == IF m = 12 THEN 1 ELSE m + 1
         IN  NormDay(ny, nm, d - DaysInMonth(y, m))
    ELSE DateOf(y, m, d)

\* floor(a / 12) and a mod 12 for a month index that may be negative
FloorDiv12(a) == IF a >= 0 THEN a \div 12 ELSE -((11 - a) \div 12)

\* new Date(year, monthIndex, day): local fields; a year 0..99 means 1900 + year
NewDateLocal(year, monthIndex, day) ==
    LET yy == IF year >= 0 /\ year <= 99 THEN 1900 + year ELSE year
        y  == yy + FloorDiv12(monthIndex)
        m  == (monthIndex - 12 * FloorDiv12(monthIndex)) + 1
    IN  NormDay(y, m, day)

\* The local calendar day of the instant 00:00 UTC of y-m-d: west of Greenwich
\* it is still the evening before.
LocalOfUtcMidnight(y, m, d) == IF rtTz < 0 THEN NormDay(y, m, d - 1) ELSE DateOf(y, m, d)

HasDigit(s) == \E i \in DOMAIN s : IsDigit(s[i])

\* new Date(s) / Date.parse(s).  The date-only ISO forms YYYY, YYYY-MM and
\* YYYY-MM-DD with legal fields are UTC midnight.  Any other text goes to the
\* engine's own fallback parser, whose result the language leaves open: text
\* without a digit is rejected, for the rest the outcome is rtLegacy.
NewDateOfString(s) ==
    LET n  == Len(s)
        y  == DigitsVal(Take(s, 4))
        mo == DigitsVal(SubSeq(s, 6, 7))
        dd == DigitsVal(SubSeq(s, 9, 10))
        isY   == n = 4 /\ AllDigits(s)
        isYM  == n = 7 /\ AllDigits(Take(s, 4)) /\ s[5] = "-" /\ AllDigits(SubSeq(s, 6, 7))
        isYMD == n = 10 /\ AllDigits(Take(s, 4)) /\ s[5] = "-" /\ AllDigits(SubSeq(s, 6, 7))
                 /\ s[8] = "-" /\ AllDigits(SubSeq(s, 9, 10))
    IN  IF isY THEN LocalOfUtcMidnight(y, 1, 1)
        ELSE IF isYM /\ mo \in 1..12 THEN LocalOfUtcMidnight(y, mo, 1)
        ELSE IF isYMD /\ mo \in 1..12 /\ dd \in 1..DaysInMonth(y, mo)
             THEN LocalOfUtcMidnight(y, mo, dd)
        ELSE IF ~HasDigit(s) THEN InvalidDate
        ELSE rtLegacy

\* s against ^(\d+)SEP(\d+)SEP(\d+)$ : the three digit runs, or ok = FALSE
Fields3(s, sep) ==
    LET a  == DigitRun(s)
        r1 == Drop(s, a)
        s1 == r1 # <<>> /\ Head(r1) = sep
        r2 == IF s1 THEN Tail(r1) ELSE <<>>
        b  == DigitRun(r2)
        r3 == Drop(r2, b)
        s2 == r3 # <<>> /\ Head(r3) = sep
        r4 == IF s2 THEN Tail(r3) ELSE <<>>
        c  == DigitRun(r4)
    IN  IF s1 /\ s2 /\ c = Len(r4)
        THEN [ok |-> TRUE, f1 |-> Take(s, a), f2 |-> Take(r2, b), f3 |-> r4]
        ELSE [ok |-> FALSE, f1 |-> <<>>, f2 |-> <<>>, f3 |-> <<>>]

\* ^(\d{4})SEP(\d{1,2})SEP(\d{1,2})$
MatchYMD(s, sep) ==
    LET f == Fields3(s, sep)
    IN  IF f.ok /\ Len(f.f1) = 4 /\ Len(f.f2) \in 1..2 /\ Len(f.f3) \in 1..2
        THEN f ELSE [f EXCEPT !.ok = FALSE]

\* ^(\d{1,2})SEP(\d{1,2})SEP(\d{4})$
MatchXXY(s, sep) ==
    LET f == Fields3(s, sep)
    IN  IF f.ok /\ Len(f.f1) \in 1..2 /\ Len(f.f2) \in 1..2 /\ Len(f.f3) = 4
        THEN f ELSE [f EXCEPT !.ok = FALSE]

months == <<<<"J", "a", "n">>, <<"F", "e", "b">>, <<"M", "a", "r">>, <<"A", "p", "r">>,
            <<"M", "a", "y">>, <<"J", "u", "n">>, <<"J", "u", "l">>, <<"A", "u", "g">>,
            <<"S", "e", "p">>, <<"O", "c", "t">>, <<"N", "o", "v">>, <<"D", "e", "c">>>>

\* ^(\d{1,2})-([A-Za-z]{3})-(\d{4})$ and the month table
ParseDMonY(s) ==
    LET a   == DigitRun(s)
        r1  == Drop(s, a)
        ok1 == a \in 1..2 /\ Len(r1) = 9 /\ r1[1] = "-" /\ r1[5] = "-"
               /\ (\A i \in 2..4 : IsAlpha(r1[i])) /\ AllDigits(SubSeq(r1, 6, 9))
        mon == SubSeq(r1, 2, 4)
    IN  IF ~ok1 THEN InvalidDate
        ELSE IF mon \notin Range(months) THEN InvalidDate
        ELSE NewDateLocal(DigitsVal(SubSeq(r1, 6, 9)),
                          (CHOOSE i \in DOMAIN months : months[i] = mon) - 1,
                          DigitsVal(Take(s, a)))

parseDateWithFormat(s, format) ==
    IF format = "auto" THEN NewDateOfString(s)
    ELSE IF format = "YYYY-MM-DD" THEN
        LET f == MatchYMD(s, "-")
        IN  IF ~f.ok THEN InvalidDate
            ELSE NewDateLocal(DigitsVal(f.f1), DigitsVal(f.f2) - 1, DigitsVal(f.f3))
    ELSE IF format = "MM/DD/YYYY" THEN
        LET f == MatchXXY(s, "/")
        IN  IF ~f.ok THEN InvalidDate
            ELSE NewDateLocal(DigitsVal(f.f3), DigitsVal(f.f1) - 1, DigitsVal(f.f2))
    ELSE IF format = "DD/MM/YYYY" THEN
        LET f == MatchXXY(s, "/")
        IN  IF ~f.ok THEN InvalidDate
            ELSE NewDateLocal(DigitsVal(f.f3), DigitsVal(f.f2) - 1, DigitsVal(f.f1))
    ELSE IF format = "YYYY/MM/DD" THEN
        LET f == MatchYMD(s, "/")
        IN  IF ~f.ok THEN InvalidDate
            ELSE NewDateLocal(DigitsVal(f.f1), DigitsVal(f.f2) - 1, DigitsVal(f.f3))
    ELSE IF format = "DD-MMM-YYYY" THEN ParseDMonY(s)
    ELSE InvalidDate

\* MatchYearMonthPrefix with the pattern /^(\d{4})-(\d{1,2})/: no "/" accepted
MatchYearMonthPrefix_dashOnly(s) ==
    IF Len(s) >= 6 /\ AllDigits(Take(s, 4)) /\ s[5] = "-" /\ IsDigit(s[6])
    THEN [ok |-> TRUE, y |-> Take(s, 4),
          mm |-> IF Len(s) >= 7 /\ IsDigit(s[7]) THEN SubSeq(s, 6, 7) ELSE SubSeq(s, 6, 6)]
    ELSE [ok |-> FALSE, y |-> <<>>, mm |-> <<>>]

\* s.match(/^(\d{4})[-/](\d{1,2})/): the year and the month text, or ok = FALSE
MatchYearMonthPrefix(s) ==
    IF Len(s) >= 6 /\ AllDigits(Take(s, 4)) /\ s[5] \in {"-", "/"} /\ IsDigit(s[6])
    THEN [ok |-> TRUE, y |-> Take(s, 4),
          mm |-> IF Len(s) >= 7 /\ IsDigit(s[7]) THEN SubSeq(s, 6, 7) ELSE SubSeq(s, 6, 6)]
    ELSE [ok |-> FALSE, y |-> <<>>, mm |-> <<>>]

Formats == {"auto", "YYYY-MM-DD", "MM/DD/YYYY", "DD/MM/YYYY", "YYYY/MM/DD", "DD-MMM-YYYY"}

\* formatDateBucket past the parse: s the trimmed text, d the parsed date,
\* m2 the match of the year-month prefix
BucketText(s, d, m2, monthBucketArg) ==
    IF s = <<>> THEN s
    ELSE IF ~d.ok THEN
        (IF m2.ok THEN m2.y \o <<"-">> \o padStart2(m2.mm) ELSE s)
    ELSE IF ~monthBucketArg THEN
        IntToStr(d.y) \o <<"-">> \o padStart2(IntToStr(d.m)) \o <<"-">> \o padStart2(IntToStr(d.d))
    ELSE IntToStr(d.y) \o <<"-">> \o padStart2(IntToStr(d.m))

formatDateBucket(value, monthBucketArg, format) ==
    LET s == trim(StringOrEmpty(value))
    IN  BucketText(s, parseDateWithFormat(s, format), MatchYearMonthPrefix(s), monthBucketArg)

-----------------------------------------------------------------------------
(* String order *)

\* Characters in the order localeCompare ranks them: blanks and punctuation,
\* then digits, then letters with the lower-case form first.  The order of the
\* digits and "-" is the one date buckets rely on.  "*" stands for the bullet
\* U+2022 of the group-key separator.
CollationSeq ==
    <<" ", "-", ",", ".", "(", ")", "*", "/", "+">> \o DigitSeq \o
    <<"a", "A", "b", "B", "c", "C", "d", "D", "e", "E", "f", "F", "g", "G", "h", "H",
      "i", "I", "j", "J", "k", "K", "l", "L", "m", "M", "n", "N", "o", "O", "p", "P",
      "q", "Q", "r", "R", "s", "S", "t", "T", "u", "U", "v", "V", "w", "W", "x", "X",
      "y", "Y", "z", "Z">>

\* Characters by UTF-16 code unit, the order of Array.prototype.sort()
CodeUnitSeq ==
    <<" ", "(", ")", "*", "+", ",", "-", ".", "/">> \o DigitSeq \o UpperSeq \o LowerSeq

RankIn(order, c) == CHOOSE i \in DOMAIN order : order[i] = c

\* a strictly before b, character by character, a proper prefix first
RECURSIVE LexLess(_, _, _)
LexLess(order, a, b) ==
    IF b = <<>> THEN FALSE
    ELSE IF a = <<>> THEN TRUE
    ELSE IF Head(a) = Head(b) THEN LexLess(order, Tail(a), Tail(b))
    ELSE RankIn(order, Head(a)) < RankIn(order, Head(b))

\* a.localeCompare(b) < 0
localeLess(a, b) == LexLess(CollationSeq, a, b)

\* entries with distinct keys, sorted by key: e goes before the first larger key
RECURSIVE InsertByKey(_, _, _)
InsertByKey(order, sorted, e) ==
    IF sorted = <<>> THEN <<e>>
    ELSE IF LexLess(order, e.key, Head(sorted).key) THEN <<e>> \o sorted
    ELSE <<Head(sorted)>> \o InsertByKey(order, Tail(sorted), e)

RECURSIVE SortByKey(_, _)
SortByKey(order, entries) ==
    IF entries = <<>> THEN <<>>
    ELSE InsertByKey(order, SortByKey(order, SubSeq(entries, 1, Len(entries) - 1)),
                     entries[Len(entries)])

-----------------------------------------------------------------------------
(* Filtering dashboard: filter rules and aggregation *)

NullIdx == -1                                   \* primaryMetricIdx === null
NoDate == -1                                    \* dateIdx === ""
NullHeader == [has |-> FALSE, cols |-> <<>>]    \* headerRow === null
HeaderOf(cols) == [has |-> TRUE, cols |-> cols]

Ops == {"contains", "equals", "notContains", "notEquals"}
Rule(c, o, v) == [colIdx |-> c, op |-> o, value |-> v]

\* matchesRow comparing case-sensitively in contains / notContains
RECURSIVE matchesRow_caseSensitive(_, _)
matchesRow_caseSensitive(row, rules) ==
    IF rules = <<>> THEN TRUE
    ELSE LET r      == Head(rules)
             v      == StringOrEmpty(At(row, r.colIdx))
             needle == r.value
             inc    == includes(v, needle)
             fails  == \/ r.op = "contains" /\ ~inc
                       \/ r.op = "equals" /\ v # needle
                       \/ r.op = "notContains" /\ inc
                       \/ r.op = "notEquals" /\ v = needle
         IN  IF fails THEN FALSE ELSE matchesRow_caseSensitive(row, Tail(rules))

RECURSIVE matchesRow(_, _)
matchesRow(row, rules) ==
    IF rules = <<>> THEN TRUE
    ELSE LET r      == Head(rules)
             v      == StringOrEmpty(At(row, r.colIdx))
             needle == r.value
             inc    == includes(toLowerCase(v), toLowerCase(needle))
             fails  == \/ r.op = "contains" /\ ~inc
                       \/ r.op = "equals" /\ v # needle
                       \/ r.op = "notContains" /\ inc
                       \/ r.op = "notEquals" /\ v = needle
         IN  IF fails THEN FALSE ELSE matchesRow(row, Tail(rules))

parseFloatSafe(v) ==
    LET n == parseFloat(StripCommas(StringOrEmpty(v)))
    IN  IF IsNaN(n) THEN Zero ELSE n

EmptyMarker == <<"(", "e", "m", "p", "t", "y", ")">>
KeySeparator == <<" ", "*", " ">>
AllKey == <<"A", "l", "l">>

RECURSIVE JoinKeys(_)
JoinKeys(parts) ==
    IF parts = <<>> THEN <<>>
    ELSE IF Len(parts) = 1 THEN parts[1]
    ELSE parts[1] \o KeySeparator \o JoinKeys(Tail(parts))

\* buildGroupKey over the dimensions in column order, not selection order
buildGroupKey_columnOrder(row, dimIdxs) ==
    IF dimIdxs = <<>> THEN AllKey
    ELSE JoinKeys([i \in DOMAIN dimIdxs |->
            LET idx == CHOOSE c \in Range(dimIdxs) :
                           Cardinality({e \in Range(dimIdxs) : e < c}) = i - 1
                val == At(row, idx)
            IN  IF val.k = "u" \/ (val.k = "s" /\ val.s = <<>>) THEN EmptyMarker
                ELSE String(val)])

buildGroupKey(row, dimIdxs) ==
    IF dimIdxs = <<>> THEN AllKey
    ELSE JoinKeys([i \in DOMAIN dimIdxs |->
            LET val == At(row, dimIdxs[i])
            IN  IF val.k = "u" \/ (val.k = "s" /\ val.s = <<>>) THEN EmptyMarker
                ELSE String(val)])

\* MapAdd with the previous sum forgotten: totals.set(key, {sum: val, ...})
MapAdd_overwrite(totals, key, val) ==
    IF \E i \in DOMAIN totals : totals[i].key = key
    THEN LET i == CHOOSE j \in DOMAIN totals : totals[j].key = key
         IN  [totals EXCEPT ![i] = [key |-> key, sum |-> val, count |-> @.count + 1]]
    ELSE Append(totals, [key |-> key, sum |-> val, count |-> 1])

\* totals.set(key, {sum: prev.sum + val, count: prev.count + 1}) on a Map kept
\* as the sequence of its entries in insertion order
MapAdd(totals, key, val) ==
    IF \E i \in DOMAIN totals : totals[i].key = key
    THEN LET i == CHOOSE j \in DOMAIN totals : totals[j].key = key
         IN  [totals EXCEPT ![i] = [key |-> key, sum |-> RatAdd(@.sum, val),
                                    count |-> @.count + 1]]
    ELSE Append(totals, [key |-> key, sum |-> val, count |-> 1])

\* one pass of "for (const row of rawRows)": entries are the [key, val] of the
\* rows that were not skipped
RECURSIVE FoldTotals(_, _)
FoldTotals(entries, totals) ==
    IF entries = <<>> THEN totals
    ELSE FoldTotals(Tail(entries), MapAdd(totals, Head(entries).key, Head(entries).val))

\* the rows that pass "if (!matchesRow(row, filterRules)) continue"
FilteredRows(rows) == SelectSeq(rows, LAMBDA row : matchesRow(row, filterRules))

\* aggregation === "count" ? 1 : parseFloatSafe(row[idx])
MetricVal(row, idx) == IF aggregation = "count" THEN One ELSE parseFloatSafe(At(row, idx))

\* aggregation === "sum" ? sum : aggregation === "count" ? count : count ? sum / count : 0
AggValue(e) ==
    IF aggregation = "sum" THEN e.sum
    ELSE IF aggregation = "count" THEN Rat(e.count, 1)
    ELSE IF e.count # 0 THEN RatDivInt(e.sum, e.count) ELSE Zero

\* !headerRow || !rawRows.length || primaryMetricIdx == null
NoChartData(rows) == ~headerRow.has \/ rows = <<>> \/ primaryMetricIdx = NullIdx

\* the [key, val] of each row of the pie loop: the group key and the metric value
GroupEntries(kept) ==
    [i \in DOMAIN kept |->
        [key |-> IF selectedDims # <<>> THEN buildGroupKey(kept[i], selectedDims) ELSE AllKey,
         val |-> MetricVal(kept[i], primaryMetricIdx)]]

\* Array.from(totals.entries()).map(([group, {sum, count}]) => ({group, value}))
GroupValues(totals) ==
    [i \in DOMAIN totals |-> [group |-> totals[i].key, value |-> AggValue(totals[i])]]

\* pieDataOf without the matchesRow test: every row is counted
pieDataOf_unfiltered(rows) ==
    IF NoChartData(rows) THEN <<>>
    ELSE GroupValues(FoldTotals(GroupEntries(rows), <<>>))

\* pieData over the grid rows; the other inputs are the component's state
pieDataOf(rows) ==
    IF NoChartData(rows) THEN <<>>
    ELSE GroupValues(FoldTotals(GroupEntries(FilteredRows(rows)), <<>>))

pieData == pieDataOf(rawRows)

\* the [key, val] of each row of the date loops: the bucket and the metric value
DateEntries(kept) ==
    [i \in DOMAIN kept |->
        [key |-> formatDateBucket(At(kept[i], dateIdx), monthBucket, dateFormat),
         val |-> MetricVal(kept[i], primaryMetricIdx)]]

\* the per-bucket totals of barData and areaData, sorted with localeCompare
DateTotals ==
    SortByKey(CollationSeq, FoldTotals(DateEntries(FilteredRows(rawRows)), <<>>))

\* barData; an entry's label is kept in the field group, whether the code
\* calls it date (a date column is selected) or group
barData ==
    IF NoChartData(rawRows) THEN <<>>
    ELSE IF dateIdx # NoDate THEN GroupValues(DateTotals)
    ELSE pieData

\* RunningSum with "running = v" for "running += v"
RunningSum_noCarry(totals, running) ==
    [i \in DOMAIN totals |-> [date |-> totals[i].key, cumulative |-> AggValue(totals[i])]]

\* running += v over the sorted buckets
RECURSIVE RunningSum(_, _)
RunningSum(totals, running) ==
    IF totals = <<>> THEN <<>>
    ELSE LET r == RatAdd(running, AggValue(Head(totals)))
         IN  <<[date |-> Head(totals).key, cumulative |-> r]>> \o RunningSum(Tail(totals), r)

areaData ==
    IF NoChartData(rawRows) \/ dateIdx = NoDate THEN <<>>
    ELSE RunningSum(DateTotals, Zero)

-----------------------------------------------------------------------------
(* Mapping dashboard: records and their aggregation by date *)

NullMapping == [has |-> FALSE, dateIdx |-> 0, costIdx |-> 0, serviceIdx |-> 0]
MappingOf(d, c, s) == [has |-> TRUE, dateIdx |-> d, costIdx |-> c, serviceIdx |-> s]

UnknownKey == <<"(", "u", "n", "k", "n", "o", "w", "n", ")">>

\* onload: rows.map(r => ({date, cost, service})) with the guessed mapping
ParseOnLoad(rows, m) ==
    [i \in DOMAIN rows |->
        LET rc == parseFloat(StringOrEmpty(At(rows[i], m.costIdx)))
        IN  [date    |-> StringOrEmpty(At(rows[i], m.dateIdx)),
             cost    |-> IF IsNaN(rc) THEN Zero ELSE rc,
             service |-> StringOrEmpty(At(rows[i], m.serviceIdx))]]

\* Number(d.cost) || 0 added under the key d.date || "(unknown)", keys sorted
aggregateByDate(recs) ==
    LET totals == SortByKey(CodeUnitSeq, FoldTotals(
            [i \in DOMAIN recs |->
                [key |-> IF recs[i].date = <<>> THEN UnknownKey ELSE recs[i].date,
                 val |-> OrZero(recs[i].cost)]], <<>>))
    IN  [i \in DOMAIN totals |-> [date |-> totals[i].key, cost |-> totals[i].sum]]

RECURSIVE RunningCost(_, _)
RunningCost(sorted, running) ==
    IF sorted = <<>> THEN <<>>
    ELSE LET r == RatAdd(running, OrZero(Head(sorted).cost))
         IN  <<[date |-> Head(sorted).date, cumulative |-> r]>> \o RunningCost(Tail(sorted), r)

cumulativeByDate(recs) == RunningCost(aggregateByDate(recs), Zero)

\* Apply Mapping: rawRows.map(row => ({date, cost, service})).  String(undefined)
\* is the text "undefined", which parseFloat reads as NaN; row[serviceIdx] || ""
\* turns undefined, "" and the number 0 into "".
ParseApply(rows, m) ==
    [i \in DOMAIN rows |->
        LET c  == At(rows[i], m.costIdx)
            sv == At(rows[i], m.serviceIdx)
            rc == IF c.k = "u" THEN NaN ELSE parseFloat(String(c))
        IN  [date    |-> StringOrEmpty(At(rows[i], m.dateIdx)),
             cost    |-> IF IsNaN(rc) THEN Zero ELSE rc,
             service |-> IF sv.k = "u" \/ (sv.k = "n" /\ sv.n = 0) THEN <<>> ELSE String(sv)]]

-----------------------------------------------------------------------------
(* Column detection and record building of the mapping dashboards and of    *)
(* the simple drop / billing page                                           *)

DetectRows == 10
PreviewLen == 10

\* parsed.slice(0, k)
SliceFront(s, k) == SubSeq(s, 1, IF k < Len(s) THEN k ELSE Len(s))

\* a scoring loop over every row of the grid
ScoredTexts_allRows(rows, c) ==
    [r \in {q \in 1..Len(rows) : At(rows[q], c).k # "u"} |-> trim(String(At(rows[r], c)))]

\* the cells of column c the scoring loop reads: rows 0 .. rowsToCheck - 1,
\* v == null skipped, each as String(v).trim()
ScoredTexts(rows, c) ==
    LET rowsToCheck == IF Len(rows) < DetectRows THEN Len(rows) ELSE DetectRows
    IN  [r \in {q \in 1..rowsToCheck : At(rows[q], c).k # "u"} |-> trim(String(At(rows[r], c)))]

CountsAsDate(s) == NewDateOfString(s).ok /\ IsNaN(NumberOfStr(s))
CountsAsNumber(s) == ~IsNaN(NumberOfStr(s))

\* dateScores and numericScores after the scoring loop: score[c + 1] for column c
DateScores(rows, cols) ==
    [c \in 1..cols |->
        LET texts == ScoredTexts(rows, c - 1)
        IN  Cardinality({r \in DOMAIN texts : \E s \in {texts[r]} : CountsAsDate(s)})]

NumericScores(rows, cols) ==
    [c \in 1..cols |->
        LET texts == ScoredTexts(rows, c - 1)
        IN  Cardinality({r \in DOMAIN texts : \E s \in {texts[r]} : CountsAsNumber(s)})]

\* scores.lastIndexOf(Math.max(...scores)): ties go to the last column
IndexOfMax_last(scores) ==
    IF scores = <<>> THEN -1
    ELSE (CHOOSE c \in DOMAIN scores :
              /\ \A e \in DOMAIN scores : scores[e] <= scores[c]
              /\ \A e \in DOMAIN scores : e > c => scores[e] < scores[c]) - 1

\* scores.indexOf(Math.max(...scores)): the first column of greatest score,
\* -1 when there is no column
IndexOfMax(scores) ==
    IF scores = <<>> THEN -1
    ELSE (CHOOSE c \in DOMAIN scores :
              /\ \A e \in DOMAIN scores : scores[e] <= scores[c]
              /\ \A e \in 1..(c - 1) : scores[e] < scores[c]) - 1

detectFromData(header, rows) ==
    LET cols  == IF header.has THEN Len(header.cols)
                 ELSE IF rows # <<>> THEN Len(rows[1]) ELSE 3
        Guess(dIdx, cIdx) ==
            LET free == {c \in 0..(cols - 1) : c # dIdx /\ c # cIdx}
                sIdx == IF free = {} THEN 0 ELSE CHOOSE c \in free : \A e \in free : c <= e
            IN  MappingOf(IF dIdx >= 0 THEN dIdx ELSE 0, IF cIdx >= 0 THEN cIdx ELSE 1, sIdx)
    IN  CHOOSE m \in {Guess(dIdx, cIdx) :
                         dIdx \in {IndexOfMax(ds) : ds \in {DateScores(rows, cols)}},
                         cIdx \in {IndexOfMax(ns) : ns \in {NumericScores(rows, cols)}}} : TRUE

\* a grid that keeps the header row
RowsOf_keepsFirst(sheet) == sheet

\* rows[0] && rows[0].every(c => typeof c === "string"); every skips holes
FirstRowIsHeader(sheet) ==
    sheet # <<>> /\ \A i \in DOMAIN sheet[1] : sheet[1][i].k \in {"s", "u"}

FirstRowOf(sheet) == IF FirstRowIsHeader(sheet) THEN HeaderOf(sheet[1]) ELSE NullHeader
RowsOf(sheet) == IF FirstRowIsHeader(sheet) THEN Tail(sheet) ELSE sheet

\* renderColumnOptions: the column indices the mapping selects offer
ColumnOptions ==
    0..((IF headerRow.has THEN Len(headerRow.cols)
         ELSE IF rawRows # <<>> THEN Len(rawRows[1]) ELSE 3) - 1)

\* the mapping select the model operates: the cost column.  The date and the
\* service select set their own field in the same way.
MappingFields == {"costIdx"}

\* "Failed to parse file: " + String(err), the text of the error left out
FailedToParse == <<"F", "a", "i", "l", "e", "d", " ", "t", "o", " ", "p", "a", "r", "s", "e", " ", "f", "i", "l", "e", ":", " ">>

(* Chart-mapping dashboard.  A record is an object: a function from property *)
(* names to values, a value being a cell or a computed number.               *)

PropDate == <<"d", "a", "t", "e">>
PropCost == <<"c", "o", "s", "t">>
PropService == <<"s", "e", "r", "v", "i", "c", "e">>
PropSubscriptionName == <<"s", "u", "b", "s", "c", "r", "i", "p", "t", "i", "o", "n", "N", "a", "m", "e">>
PropMeterCategory == <<"m", "e", "t", "e", "r", "C", "a", "t", "e", "g", "o", "r", "y">>
KeySubscriptionName == <<"s", "u", "b", "s", "c", "r", "i", "p", "t", "i", "o", "n", "n", "a", "m", "e">>
KeyMeterCategory == <<"m", "e", "t", "e", "r", "c", "a", "t", "e", "g", "o", "r", "y">>

ChartDefaults == [pieGroupBy |-> PropService, valueField |-> PropCost, dateField |-> PropDate]

NumVal(x) == [k |-> "r", s |-> <<>>, n |-> 0, r |-> x]

\* obj[name] = val
SetProp(obj, name, val) == (name :> val) @@ obj

\* headerLower.indexOf(key), headerLower = header.map(h => String(h || "").toLowerCase())
HeaderIndexOf(cols, key) ==
    LET hits == {i \in DOMAIN cols : toLowerCase(StringOrEmpty(cols[i])) = key}
    IN  IF hits = {} THEN -1 ELSE (CHOOSE i \in hits : \A e \in hits : i <= e) - 1

\* firstRow[idx] ?? fallback
LabelAt(cols, idx, fallback) == IF At(cols, idx).k = "u" THEN fallback ELSE At(cols, idx).s

ChartDefaultsOf(cols, m) ==
    [pieGroupBy |-> LabelAt(cols, m.serviceIdx, PropService),
     valueField |-> LabelAt(cols, m.costIdx, PropCost),
     dateField  |-> LabelAt(cols, m.dateIdx, PropDate)]

\* header.forEach((h, idx) => { if (!h) return; if (allowed(h)) obj[h] = row[idx] })
RECURSIVE AttachProps(_, _, _, _, _)
AttachProps(obj, cols, row, allowed, i) ==
    IF i > Len(cols) THEN obj
    ELSE LET h == StringOrEmpty(cols[i])
         IN  AttachProps(IF h # <<>> /\ h \in allowed THEN SetProp(obj, h, At(row, i - 1)) ELSE obj,
                         cols, row, allowed, i + 1)

HeaderNames(cols) == {StringOrEmpty(cols[i]) : i \in DOMAIN cols}

\* the mapping of a sheet with a header: known header names override the guess
UseMapping(cols, guessed) ==
    LET costIdx  == HeaderIndexOf(cols, PropCost)
        meterIdx == HeaderIndexOf(cols, KeyMeterCategory)
    IN  MappingOf(guessed.dateIdx,
                  IF costIdx >= 0 THEN costIdx ELSE guessed.costIdx,
                  IF meterIdx >= 0 THEN meterIdx ELSE guessed.serviceIdx)

ChosenExtra(cols) ==
    LET subIdx   == HeaderIndexOf(cols, KeySubscriptionName)
        meterIdx == HeaderIndexOf(cols, KeyMeterCategory)
        first    == IF subIdx >= 0 THEN <<At(cols, subIdx).s>> ELSE <<>>
    IN  IF meterIdx >= 0 /\ At(cols, meterIdx).s \notin Range(first)
        THEN Append(first, At(cols, meterIdx).s) ELSE first

\* onload, header present: rows.map(r => base) with extras attached
ChartParseOnLoad(rows, cols, m) ==
    LET subIdx   == HeaderIndexOf(cols, KeySubscriptionName)
        meterIdx == HeaderIndexOf(cols, KeyMeterCategory)
    IN  [i \in DOMAIN rows |->
            LET r    == rows[i]
                rc   == parseFloat(StringOrEmpty(At(r, m.costIdx)))
                base == (PropDate :> StrCell(StringOrEmpty(At(r, m.dateIdx))))
                        @@ (PropCost :> NumVal(IF IsNaN(rc) THEN Zero ELSE rc))
                        @@ (PropService :> StrCell(StringOrEmpty(At(r, m.serviceIdx))))
                b1   == AttachProps(base, cols, r, Range(ChosenExtra(cols)), 1)
                b2   == IF subIdx >= 0
                        THEN SetProp(b1, PropSubscriptionName, StrCell(StringOrEmpty(At(r, subIdx))))
                        ELSE b1
            IN  IF meterIdx >= 0
                THEN SetProp(b2, PropMeterCategory, StrCell(StringOrEmpty(At(r, meterIdx))))
                ELSE b2]

\* onload, no header: rows.map(r => ({date, cost, service}))
ChartParsePlain(rows, m) ==
    [i \in DOMAIN rows |->
        LET rc == parseFloat(StringOrEmpty(At(rows[i], m.costIdx)))
        IN  (PropDate :> StrCell(StringOrEmpty(At(rows[i], m.dateIdx))))
            @@ (PropCost :> NumVal(IF IsNaN(rc) THEN Zero ELSE rc))
            @@ (PropService :> StrCell(StringOrEmpty(At(rows[i], m.serviceIdx))))]

\* Apply Mapping: every header-labelled property attached, then the known names
ChartParseApply(rows, header, m) ==
    [i \in DOMAIN rows |->
        LET r    == rows[i]
            c    == At(r, m.costIdx)
            sv   == At(r, m.serviceIdx)
            rc   == IF c.k = "u" THEN NaN ELSE parseFloat(String(c))
            base == (PropDate :> StrCell(StringOrEmpty(At(r, m.dateIdx))))
                    @@ (PropCost :> NumVal(IF IsNaN(rc) THEN Zero ELSE rc))
                    @@ (PropService :>
                           StrCell(IF sv.k = "u" \/ (sv.k = "n" /\ sv.n = 0) THEN <<>> ELSE String(sv)))
            cols    == header.cols
            idxSub  == HeaderIndexOf(cols, KeySubscriptionName)
            idxMet  == HeaderIndexOf(cols, KeyMeterCategory)
            idxCost == HeaderIndexOf(cols, PropCost)
            b1 == AttachProps(base, cols, r, HeaderNames(cols), 1)
            b2 == IF idxSub >= 0
                  THEN SetProp(b1, PropSubscriptionName, StrCell(StringOrEmpty(At(r, idxSub))))
                  ELSE b1
            b3 == IF idxMet >= 0
                  THEN SetProp(b2, PropMeterCategory, StrCell(StringOrEmpty(At(r, idxMet))))
                  ELSE b2
            b4 == IF idxCost >= 0 /\ ~IsNaN(parseFloat(StringOrEmpty(At(r, idxCost))))
                  THEN SetProp(b3, PropCost, NumVal(NumberOf(At(r, idxCost))))
                  ELSE b3
        IN  IF header.has THEN b4 ELSE base]

(* Simple drop / billing page *)

\* parseFloat(v) of a cell; undefined reads as the text "undefined"
ParseFloatOf(v) == IF v.k = "u" THEN NaN ELSE parseFloat(String(v))

\* v || ""
OrEmptyString(v) ==
    IF v.k = "u" \/ (v.k = "s" /\ v.s = <<>>) \/ (v.k = "n" /\ v.n = 0) THEN StrCell(<<>>) ELSE v

\* jsonData.slice(1).map(row => ({date: row[0], cost: parseFloat(row[1]), service: row[2] || ""}))
SimpleParse(sheet) ==
    LET body == IF sheet = <<>> THEN <<>> ELSE Tail(sheet)
    IN  [i \in DOMAIN body |->
            [date    |-> At(body[i], 0),
             cost    |-> ParseFloatOf(At(body[i], 1)),
             service |-> OrEmptyString(At(body[i], 2))]]

\* columns.findIndex(c => c.name === a || c.name === b)
FindColumn(columns, names) ==
    LET hits == {i \in DOMAIN columns : columns[i] \in names}
    IN  IF hits = {} THEN -1 ELSE (CHOOSE i \in hits : \A e \in hits : i <= e) - 1

ColUsageDate == <<"U", "s", "a", "g", "e", "D", "a", "t", "e">>
ColDate == <<"D", "a", "t", "e">>
ColCost == <<"C", "o", "s", "t">>
ColPreTaxCost == <<"P", "r", "e", "T", "a", "x", "C", "o", "s", "t">>
ColServiceName == <<"S", "e", "r", "v", "i", "c", "e", "N", "a", "m", "e">>

\* result.rows.map(row => ({date: row[dateIndex], cost: parseFloat(row[costIndex]), ...}))
FetchParse(result) ==
    LET dateIndex    == FindColumn(result.columns, {ColUsageDate, ColDate})
        costIndex    == FindColumn(result.columns, {ColCost, ColPreTaxCost})
        serviceIndex == FindColumn(result.columns, {ColServiceName})
    IN  [i \in DOMAIN result.rows |->
            [date    |-> At(result.rows[i], dateIndex),
             cost    |-> ParseFloatOf(At(result.rows[i], costIndex)),
             service |-> OrEmptyString(At(result.rows[i], serviceIndex))]]

-----------------------------------------------------------------------------
(* Inputs *)

MaxRows == 2       \* longest grid drawn besides the example grid
TzSpan == 8        \* the time zones drawn are UTC-TzSpan, UTC and UTC+TzSpan
DefaultTopN == 6

TzOffsets == {-TzSpan, 0, TzSpan}
Aggregations == {"sum", "avg", "count"}

s20240105 == <<"2", "0", "2", "4", "-", "0", "1", "-", "0", "5">>
s20240120 == <<"2", "0", "2", "4", "-", "0", "1", "-", "2", "0">>
s20240201 == <<"2", "0", "2", "4", "-", "0", "2", "-", "0", "1">>
s202401 == <<"2", "0", "2", "4", "-", "0", "1">>
s202402 == <<"2", "0", "2", "4", "-", "0", "2">>
sNA == <<"n", "/", "a">>
s10 == <<"1", "0">>
s5 == <<"5">>
s7 == <<"7">>
sMinus3 == <<"-", "3">>
s1000p5 == <<"1", ",", "0", "0", "0", ".", "5">>
sVM == <<"V", "M">>
sVm == <<"v", "m">>
sStorage == <<"S", "t", "o", "r", "a", "g", "e">>
sDate == <<"D", "a", "t", "e">>
sCost == <<"C", "o", "s", "t">>
sService == <<"S", "e", "r", "v", "i", "c", "e">>

ExampleHeader == <<sDate, sCost, sService>>
ExampleGrid ==
    << <<StrCell(s20240105), StrCell(s10), StrCell(sVM)>>,
       <<StrCell(s20240120), StrCell(s5), StrCell(sVM)>>,
       <<StrCell(s20240201), StrCell(s7), StrCell(sStorage)>> >>

\* Rows of the grids: the three example rows, a row whose date and metric do
\* not parse and whose category is empty, a negative metric with a category
\* that differs from VM by case only, and a ragged row with a number cell and
\* a metric written with a thousands separator and a fraction.
RowPool ==
    Range(ExampleGrid) \cup
    { <<StrCell(sNA), StrCell(sNA), StrCell(<<>>)>>,
      <<StrCell(s20240201), StrCell(sMinus3), StrCell(sVm)>>,
      <<NumCell(2024), StrCell(s1000p5)>> }

Grids == {ExampleGrid} \cup UNION {[1..n -> RowPool] : n \in 0..MaxRows}

AggMetricCols == {1, 2}
AggDimChoices == {<<>>, <<2>>, <<2, 0>>}
AggDateChoices ==
    {<<NoDate, TRUE, "auto">>, <<0, TRUE, "auto">>, <<0, TRUE, "YYYY-MM-DD">>, <<0, FALSE, "auto">>}
AggRuleSets ==
    {<<>>, <<Rule(2, "equals", sVM)>>, <<Rule(2, "contains", sVm), Rule(1, "notEquals", s10)>>}

-----------------------------------------------------------------------------
(* Aggregation: the charts of a state of the filtering dashboard, and the    *)
(* cumulative series of the mapping dashboard over the same grid.            *)

InitAgg ==
    /\ rtTz \in TzOffsets
    /\ rtLegacy = InvalidDate
    /\ rtBatched = TRUE
    /\ rtReads = {}
    /\ rawRows \in Grids
    /\ headerRow = HeaderOf(ExampleHeader)
    /\ warnings = <<>>
    /\ primaryMetricIdx \in AggMetricCols
    /\ metricsIdxs = <<primaryMetricIdx>>
    /\ aggregation \in Aggregations
    /\ \E c \in AggDateChoices : dateIdx = c[1] /\ monthBucket = c[2] /\ dateFormat = c[3]
    /\ selectedDims \in AggDimChoices
    /\ dimSearch = <<>>
    /\ topN = Rat(DefaultTopN, 1)
    /\ seriesVisible = <<>>
    /\ filterRules \in AggRuleSets
    /\ mapping = MappingOf(0, 1, 2)
    /\ data = ParseApply(rawRows, mapping)
    /\ extraFields = <<>>
    /\ chartMapping = ChartDefaults
    /\ previewRows = <<>>
    /\ showModal = FALSE
    /\ pc = "state"
    /\ arg = <<>>
    /\ out = <<>>

\* one render: the memoised chart data of the current state
Render ==
    /\ pc = "state"
    /\ pc' = "rendered"
    /\ out' = [pie |-> pieData, bar |-> barData, area |-> areaData,
               cum |-> cumulativeByDate(data)]
    /\ UNCHANGED <<rtVars, gridVars, selVars, mapVars, arg>>

NextAgg == Render
SpecAgg == InitAgg /\ [][NextAgg]_vars

RECURSIVE SumOfValues(_)
SumOfValues(entries) ==
    IF entries = <<>> THEN Zero ELSE RatAdd(Head(entries).value, SumOfValues(Tail(entries)))

\* the metric column summed over the rows that pass matchesRow
RECURSIVE MetricSumFrom(_)
MetricSumFrom(i) ==
    IF i > Len(rawRows) THEN Zero
    ELSE RatAdd(IF matchesRow(rawRows[i], filterRules)
                THEN parseFloatSafe(At(rawRows[i], primaryMetricIdx)) ELSE Zero,
                MetricSumFrom(i + 1))

\* C2: under sum aggregation the values of the groups of pieData, and of the
\* buckets or groups of barData, add up to the sum of parseFloatSafe(metric
\* cell) over exactly the rows that pass matchesRow.
C2_SumPreserved ==
    (pc = "rendered" /\ aggregation = "sum") =>
        /\ SumOfValues(out.pie) = MetricSumFrom(1)
        /\ SumOfValues(out.bar) = MetricSumFrom(1)

\* a filter has dropped a row, two kept rows share a date bucket and fall into
\* two dimension groups, and the total is not zero
C2_Witness ==
    /\ pc = "rendered" /\ aggregation = "sum"
    /\ Len(FilteredRows(rawRows)) < Len(rawRows)
    /\ selectedDims # <<>> /\ Len(out.pie) >= 2
    /\ dateIdx # NoDate /\ Len(out.bar) = 1
    /\ MetricSumFrom(1) = Rat(15, 1)

AllMetricNonNeg ==
    \A i \in DOMAIN rawRows : RatGE0(parseFloatSafe(At(rawRows[i], primaryMetricIdx)))

AllCostNonNeg == \A i \in DOMAIN data : RatGE0(data[i].cost)

NonDecreasing(series) ==
    \A i \in 1..(Len(series) - 1) : RatLE(series[i].cumulative, series[i + 1].cumulative)

\* C3: when every metric value is >= 0 the cumulative series is non-decreasing
\* along its output order, for sum, avg and count: areaData of the filtering
\* dashboard and cumulativeByDate of the mapping dashboard.
C3_CumulativeMonotone ==
    pc = "rendered" =>
        /\ AllMetricNonNeg => NonDecreasing(out.area)
        /\ AllCostNonNeg => NonDecreasing(out.cum)

\* an average series over two buckets that really grows, next to a cumulative
\* cost series of two dates
C3_Witness ==
    /\ pc = "rendered" /\ aggregation = "avg" /\ AllMetricNonNeg /\ AllCostNonNeg
    /\ Len(out.area) = 2 /\ Len(out.cum) >= 2
    /\ ~RatLE(out.area[2].cumulative, out.area[1].cumulative)

GroupKeyOf(row) == IF selectedDims # <<>> THEN buildGroupKey(row, selectedDims) ELSE AllKey

RowsOfGroup(g) ==
    {i \in DOMAIN rawRows : matchesRow(rawRows[i], filterRules) /\ GroupKeyOf(rawRows[i]) = g}

\* each group's value is the number of passing rows with that key, and every
\* such key has exactly one group
CountsAreRowCounts ==
    /\ \A i \in DOMAIN out.pie : out.pie[i].value = Rat(Cardinality(RowsOfGroup(out.pie[i].group)), 1)
    /\ \A i, j \in DOMAIN out.pie : out.pie[i].group = out.pie[j].group => i = j
    /\ {out.pie[i].group : i \in DOMAIN out.pie}
         = {GroupKeyOf(rawRows[i]) : i \in {j \in DOMAIN rawRows : matchesRow(rawRows[j], filterRules)}}

ReplacementCells == {StrCell(sNA), StrCell(s7), StrCell(sStorage), NumCell(0)}

\* the grid with the cell of row i in the metric column replaced by c
WithMetricCell(i, c) ==
    [rawRows EXCEPT ![i] = [@ EXCEPT ![primaryMetricIdx + 1] = c]]

\* replacing any one existing cell of the metric column leaves pieData as it is
CountIgnoresMetricCells ==
    \A i \in DOMAIN rawRows : \A c \in ReplacementCells :
        primaryMetricIdx + 1 \in DOMAIN rawRows[i] => pieDataOf(WithMetricCell(i, c)) = out.pie

\* the metric column is not also a selected dimension or the column of a rule
MetricColumnHasNoOtherRole ==
    /\ \A i \in DOMAIN selectedDims : selectedDims[i] # primaryMetricIdx
    /\ \A i \in DOMAIN filterRules : filterRules[i].colIdx # primaryMetricIdx

\* C6 as stated: under count, each group's value is the number of passing rows
\* with that key, and replacing any metric cell by any other value leaves
\* every group's count unchanged.
C6_CountIndependent_Original ==
    (pc = "rendered" /\ aggregation = "count") =>
        CountsAreRowCounts /\ CountIgnoresMetricCells

\* C6 (amended): under count, each group's value is the number of passing rows
\* with that key; replacing a metric cell leaves every group's count unchanged
\* whenever the metric column is neither a selected dimension nor the column
\* of a filter rule.
C6_CountIndependent ==
    (pc = "rendered" /\ aggregation = "count") =>
        /\ CountsAreRowCounts
        /\ MetricColumnHasNoOtherRole => CountIgnoresMetricCells

\* the example: count by column 2 gives VM 2 and Storage 1, with column 1 as
\* the metric
C6_Witness ==
    /\ pc = "rendered" /\ aggregation = "count" /\ rawRows = ExampleGrid
    /\ filterRules = <<>> /\ selectedDims = <<2>> /\ primaryMetricIdx = 1
    /\ out.pie = <<[group |-> sVM, value |-> Rat(2, 1)], [group |-> sStorage, value |-> One]>>

\* the text a selected cell contributes to the key, as the claim describes it
KeyPart(cell) ==
    IF cell.k = "u" THEN EmptyMarker
    ELSE IF cell.k = "s" THEN (IF cell.s = <<>> THEN EmptyMarker ELSE cell.s)
    ELSE IntToStr(cell.n)

\* the parts of the first n dimensions, in selection order, separator between
RECURSIVE DescribedKey(_, _, _)
DescribedKey(row, dims, n) ==
    IF n = 0 THEN AllKey
    ELSE IF n = 1 THEN KeyPart(At(row, dims[1]))
    ELSE DescribedKey(row, dims, n - 1) \o KeySeparator \o KeyPart(At(row, dims[n]))

\* C23: the groups of the pie are the keys of the rows that pass the filter
\* rules: the one key All with no dimension selected, otherwise the string
\* values of the selected cells in selection order joined by the separator,
\* a missing or empty cell written (empty).
C23_GroupKeys ==
    pc = "rendered" =>
        \E kept \in {FilteredRows(rawRows)} :
            /\ {out.pie[i].group : i \in DOMAIN out.pie}
                   = {DescribedKey(kept[i], selectedDims, Len(selectedDims)) : i \in DOMAIN kept}
            /\ \A i \in DOMAIN out.pie : \A j \in DOMAIN out.pie :
                   out.pie[i].group = out.pie[j].group => i = j
            /\ (selectedDims = <<>> /\ kept # <<>>) => Len(out.pie) = 1

\* two dimensions selected in the order 2, 0; a row without the cell of
\* column 2 is grouped under (empty) followed by its first cell
C23_Witness ==
    /\ pc = "rendered" /\ selectedDims = <<2, 0>>
    /\ \E i \in DOMAIN out.pie :
          out.pie[i].group = EmptyMarker \o KeySeparator \o <<"2", "0", "2", "4">>
    /\ \E i \in DOMAIN out.pie :
          out.pie[i].group = EmptyMarker \o KeySeparator \o sNA

-----------------------------------------------------------------------------
(* Date bucketing: formatDateBucket on one cell *)

LegacyOutcomes == {InvalidDate, DateOf(2001, 10, 1)}

YearTexts == {<<"2", "0", "2", "4">>, <<"1", "9", "9", "9">>, <<"0", "9", "9", "9">>,
              <<"0", "0", "2", "4">>}
MonthTexts == {<<"0", "1">>, <<"1">>, <<"0", "2">>, <<"1", "2">>, <<"1", "3">>}
DayTexts == {<<"0", "1">>, <<"5">>, <<"2", "9">>, <<"3", "1">>}
MonthNames == {<<"J", "a", "n">>, <<"j", "a", "n">>, <<"D", "e", "c">>, <<"X", "y", "z">>}

DateTexts ==
    YearTexts
    \cup {y \o <<"-">> \o m : y \in YearTexts, m \in MonthTexts}
    \cup {y \o <<"-">> \o m \o <<"-">> \o d : y \in YearTexts, m \in MonthTexts, d \in DayTexts}
    \cup {y \o <<"/">> \o m \o <<"/">> \o d : y \in YearTexts, m \in MonthTexts, d \in DayTexts}
    \cup {m \o <<"/">> \o d \o <<"/">> \o y : y \in YearTexts, m \in MonthTexts, d \in DayTexts}
    \cup {d \o <<"-">> \o n \o <<"-">> \o y : y \in YearTexts, n \in MonthNames, d \in DayTexts}

OtherTexts ==
    {<<>>, <<" ", " ">>, sNA, sVM, <<" ", "n", "/", "a", " ">>,
     <<" ">> \o s202401, <<" ", "2", "0", "2", "4", "/", "1">>,
     <<"2", "0", "2", "4", "-", "1", "x">>, <<"2", "0", "2", "-", "0", "1">>,
     s20240105 \o <<" ">>, <<"2", "0", "2", "4", "-">>}

BucketInputs ==
    {StrCell(s) : s \in DateTexts \cup OtherTexts} \cup {Null, NumCell(2024), NumCell(7)}

InitBucket ==
    /\ rtTz \in TzOffsets
    /\ rtLegacy \in LegacyOutcomes
    /\ rtBatched = TRUE
    /\ rtReads = {}
    /\ rawRows = <<>>
    /\ headerRow = NullHeader
    /\ warnings = <<>>
    /\ primaryMetricIdx = NullIdx
    /\ metricsIdxs = <<>>
    /\ aggregation = "sum"
    /\ dateIdx = NoDate
    /\ monthBucket \in BOOLEAN
    /\ dateFormat \in Formats
    /\ selectedDims = <<>>
    /\ dimSearch = <<>>
    /\ topN = Rat(DefaultTopN, 1)
    /\ seriesVisible = <<>>
    /\ filterRules = <<>>
    /\ mapping = NullMapping
    /\ data = <<>>
    /\ extraFields = <<>>
    /\ chartMapping = ChartDefaults
    /\ previewRows = <<>>
    /\ showModal = FALSE
    /\ pc = "call"
    /\ arg \in BucketInputs
    /\ out = <<>>

\* formatDateBucket(arg, monthBucket, dateFormat)
Bucket ==
    /\ pc = "call"
    /\ pc' = "done"
    /\ out' = formatDateBucket(arg, monthBucket, dateFormat)
    /\ UNCHANGED <<rtVars, gridVars, selVars, mapVars, arg>>

\* the bucket fed back as a cell, with the auto format
Rebucket ==
    /\ pc = "done"
    /\ pc' = "again"
    /\ arg' = StrCell(out)
    /\ dateFormat' = "auto"
    /\ out' = formatDateBucket(StrCell(out), monthBucket, "auto")
    /\ UNCHANGED <<rtVars, gridVars, mapVars, metricsIdxs, primaryMetricIdx, aggregation,
                   dateIdx, monthBucket, selectedDims, dimSearch, topN, seriesVisible,
                   filterRules>>

NextBucket == Bucket \/ Rebucket
SpecBucket == InitBucket /\ [][NextBucket]_vars

IsYearMonthText(s) ==
    /\ Len(s) = 7 /\ AllDigits(Take(s, 4)) /\ s[5] = "-" /\ AllDigits(SubSeq(s, 6, 7))
    /\ DigitsVal(SubSeq(s, 6, 7)) \in 1..12

IsCalendarDateText(s) ==
    /\ Len(s) = 10 /\ AllDigits(Take(s, 4)) /\ s[5] = "-" /\ AllDigits(SubSeq(s, 6, 7))
    /\ s[8] = "-" /\ AllDigits(SubSeq(s, 9, 10))
    /\ DigitsVal(SubSeq(s, 6, 7)) \in 1..12
    /\ DigitsVal(SubSeq(s, 9, 10)) \in 1..DaysInMonth(DigitsVal(Take(s, 4)), DigitsVal(SubSeq(s, 6, 7)))

\* C4: formatDateBucket("YYYY-MM", monthBucket = true, format = "auto") returns
\* the same string, for every four-digit year, every month 01..12 and every
\* time zone offset.
C4_MonthIdempotent ==
    (pc = "done" /\ monthBucket /\ dateFormat = "auto" /\ arg.k = "s" /\ IsYearMonthText(arg.s))
        => out = arg.s

\* C5: with month granularity a valid calendar date YYYY-MM-DD falls in the
\* bucket that is the year-month written in the cell, under auto and under the
\* fixed format YYYY-MM-DD, for every time zone offset.
C5_MonthOfWrittenDate ==
    (pc = "done" /\ monthBucket /\ dateFormat \in {"auto", "YYYY-MM-DD"}
        /\ arg.k = "s" /\ IsCalendarDateText(arg.s))
        => out = Take(arg.s, 7)

\* t starts with four digits, "-" or "/", and one or two digits
StartsWithYearMonth(t) ==
    \E k \in 1..2 : Len(t) >= 5 + k /\ AllDigits(Take(t, 4)) /\ t[5] \in {"-", "/"}
                    /\ AllDigits(SubSeq(t, 6, 5 + k))

\* the year of t, "-", and its month text of up to two digits, zero-padded
NormalizedYearMonth(t) ==
    LET k == IF Len(t) >= 7 /\ IsDigit(t[7]) THEN 2 ELSE 1
    IN  Take(t, 4) \o <<"-">> \o (IF k = 1 THEN <<"0", t[6]>> ELSE SubSeq(t, 6, 7))

ParseFailed == ~parseDateWithFormat(trim(StringOrEmpty(arg)), dateFormat).ok

\* C8 as stated: the test "starts with four digits, - or /, one or two
\* digits" is made on the input as given; otherwise the trimmed input comes
\* back; empty or blank input gives the empty string.
C8_Fallback_Original ==
    pc = "done" =>
        LET raw == StringOrEmpty(arg)
            s   == trim(raw)
        IN  /\ s = <<>> => out = <<>>
            /\ (s # <<>> /\ ParseFailed) =>
                   out = IF StartsWithYearMonth(raw) THEN NormalizedYearMonth(raw) ELSE s

\* C8 (amended): for every format and both granularities, an input that fails
\* to parse returns the normalized YYYY-MM when the trimmed input starts with
\* four digits, "-" or "/", and one or two digits, and otherwise the trimmed
\* input unchanged; empty or blank input returns the empty string.
C8_Fallback ==
    pc = "done" =>
        LET s == trim(StringOrEmpty(arg))
        IN  /\ s = <<>> => out = <<>>
            /\ (s # <<>> /\ ParseFailed) =>
                   out = IF StartsWithYearMonth(s) THEN NormalizedYearMonth(s) ELSE s

\* a slash-separated date that the fixed format YYYY-MM-DD rejects comes back
\* as YYYY-MM with the month padded, under day granularity
C8_Witness ==
    /\ pc = "done" /\ ~monthBucket /\ dateFormat = "YYYY-MM-DD" /\ ParseFailed
    /\ arg = StrCell(<<"2", "0", "2", "4", "/", "1", "/", "5">>)
    /\ out = s202401

\* the cell is treated as a date: the selected format parses it, or it starts
\* with the year-month prefix of the fallback
TreatedAsDate ==
    LET s == trim(StringOrEmpty(arg))
    IN  s # <<>> /\ (parseDateWithFormat(s, dateFormat).ok \/ MatchYearMonthPrefix(s).ok)

\* the shape YYYY-MM
ShapeYearMonth(b) ==
    Len(b) = 7 /\ AllDigits(Take(b, 4)) /\ b[5] = "-" /\ AllDigits(SubSeq(b, 6, 7))

\* the shape YYYY-MM-DD
ShapeYearMonthDay(b) ==
    /\ Len(b) = 10 /\ AllDigits(Take(b, 4)) /\ b[5] = "-" /\ AllDigits(SubSeq(b, 6, 7))
    /\ b[8] = "-" /\ AllDigits(SubSeq(b, 9, 10))

\* C19: for every cell the bucketer treats as a date, parsed by the selected
\* format or recognised by the year-month fallback, the bucket has the shape
\* YYYY-MM under month granularity and YYYY-MM-DD under day granularity.
C19_ShapeFollowsGranularity ==
    (pc = "done" /\ TreatedAsDate) =>
        IF monthBucket THEN ShapeYearMonth(out) ELSE ShapeYearMonthDay(out)

FixedFormats == Formats \ {"auto"}

\* year, month and day as the cell writes them, for a text the format accepts
WrittenFields(s, format) ==
    IF format \in {"YYYY-MM-DD", "YYYY/MM/DD"} THEN
        LET f == MatchYMD(s, IF format = "YYYY-MM-DD" THEN "-" ELSE "/")
        IN  <<DigitsVal(f.f1), DigitsVal(f.f2), DigitsVal(f.f3)>>
    ELSE IF format = "MM/DD/YYYY" THEN
        LET f == MatchXXY(s, "/") IN <<DigitsVal(f.f3), DigitsVal(f.f1), DigitsVal(f.f2)>>
    ELSE IF format = "DD/MM/YYYY" THEN
        LET f == MatchXXY(s, "/") IN <<DigitsVal(f.f3), DigitsVal(f.f2), DigitsVal(f.f1)>>
    ELSE LET a == DigitRun(s)
         IN  <<DigitsVal(SubSeq(s, a + 6, a + 9)),
               CHOOSE i \in DOMAIN months : months[i] = SubSeq(s, a + 2, a + 4),
               DigitsVal(Take(s, a))>>

\* the written date a comes before the written date b, at the granularity
WrittenBefore(a, b, byMonth) ==
    \/ a[1] < b[1]
    \/ a[1] = b[1] /\ a[2] < b[2]
    \/ a[1] = b[1] /\ a[2] = b[2] /\ ~byMonth /\ a[3] < b[3]

\* 31 December 1999 written in the format
ProbeText(format) ==
    LET y == <<"1", "9", "9", "9">>
        m == <<"1", "2">>
        d == <<"3", "1">>
    IN  IF format = "YYYY-MM-DD" THEN y \o <<"-">> \o m \o <<"-">> \o d
        ELSE IF format = "YYYY/MM/DD" THEN y \o <<"/">> \o m \o <<"/">> \o d
        ELSE IF format = "MM/DD/YYYY" THEN m \o <<"/">> \o d \o <<"/">> \o y
        ELSE IF format = "DD/MM/YYYY" THEN d \o <<"/">> \o m \o <<"/">> \o y
        ELSE d \o <<"-", "D", "e", "c", "-">> \o y

\* C20: a cell that a fixed format parses gets a bucket of fixed width with
\* a four-digit year and two-digit month and day, and its bucket sorts before
\* (after) the bucket of 31 December 1999 exactly when the date written in the
\* cell is earlier (later) than that day, at the selected granularity.
C20_FixedWidthSortsByDate ==
    (pc = "done" /\ dateFormat \in FixedFormats
        /\ parseDateWithFormat(trim(StringOrEmpty(arg)), dateFormat).ok) =>
        \E probe \in {ProbeText(dateFormat)} :
        \E other \in {formatDateBucket(StrCell(probe), monthBucket, dateFormat)} :
        \E w \in {WrittenFields(trim(StringOrEmpty(arg)), dateFormat)} :
        \E p \in {WrittenFields(probe, dateFormat)} :
            /\ Len(out) = IF monthBucket THEN 7 ELSE 10
            /\ LexLess(CodeUnitSeq, out, other) <=> WrittenBefore(w, p, monthBucket)
            /\ LexLess(CodeUnitSeq, other, out) <=> WrittenBefore(p, w, monthBucket)

-----------------------------------------------------------------------------
(* Filter rules: matchesRow on one row *)

MaxRules == 2      \* longest rule list drawn

RuleCols == {1, 2}
RuleValues == {sVM, sVm, <<>>, <<"1">>}
RulePool == {Rule(c, o, v) : c \in RuleCols, o \in Ops, v \in RuleValues}
RuleLists == UNION {[1..n -> RulePool] : n \in 0..MaxRules}

InitMatch ==
    /\ rtTz = 0
    /\ rtLegacy = InvalidDate
    /\ rtBatched = TRUE
    /\ rtReads = {}
    /\ rawRows = ExampleGrid
    /\ headerRow = HeaderOf(ExampleHeader)
    /\ warnings = <<>>
    /\ primaryMetricIdx = NullIdx
    /\ metricsIdxs = <<>>
    /\ aggregation = "sum"
    /\ dateIdx = NoDate
    /\ monthBucket = TRUE
    /\ dateFormat = "auto"
    /\ selectedDims = <<>>
    /\ dimSearch = <<>>
    /\ topN = Rat(DefaultTopN, 1)
    /\ seriesVisible = <<>>
    /\ filterRules \in RuleLists
    /\ mapping = NullMapping
    /\ data = <<>>
    /\ extraFields = <<>>
    /\ chartMapping = ChartDefaults
    /\ previewRows = <<>>
    /\ showModal = FALSE
    /\ pc = "call"
    /\ arg \in RowPool
    /\ out = <<>>

\* matchesRow(arg, filterRules)
Match ==
    /\ pc = "call"
    /\ pc' = "done"
    /\ out' = matchesRow(arg, filterRules)
    /\ UNCHANGED <<rtVars, gridVars, selVars, mapVars, arg>>

NextMatch == Match
SpecMatch == InitMatch /\ [][NextMatch]_vars

\* what one rule asks of a row; ci: contains / notContains ignore case
RuleHolds(row, r, ci) ==
    LET v   == StringOrEmpty(At(row, r.colIdx))
        inc == IF ci THEN \E i \in 1..(Len(v) + 1) : \E j \in (i - 1)..Len(v) :
                              toLowerCase(SubSeq(v, i, j)) = toLowerCase(r.value)
               ELSE \E i \in 1..(Len(v) + 1) : \E j \in (i - 1)..Len(v) : SubSeq(v, i, j) = r.value
    IN  CASE r.op = "contains" -> inc
          [] r.op = "notContains" -> ~inc
          [] r.op = "equals" -> v = r.value
          [] r.op = "notEquals" -> v # r.value

ExampleRetained ==
    (filterRules = <<Rule(2, "equals", sVM)>> /\ arg \in Range(ExampleGrid))
        => (out <=> arg \in {ExampleGrid[1], ExampleGrid[2]})

\* C7 as stated: matchesRow is the conjunction of its rules, contains and
\* notContains testing substring membership and its negation.
C7_MatchesAll_Original ==
    pc = "done" =>
        /\ out = (\A i \in DOMAIN filterRules : RuleHolds(arg, filterRules[i], FALSE))
        /\ ExampleRetained

\* C7 (amended): matchesRow(row, rules) is true exactly when every rule holds
\* for the row, a rule reading its cell as a string (missing cell = ""), where
\* contains / notContains test substring membership ignoring letter case and
\* its negation, equals / notEquals test exact string equality and its
\* negation; an empty rule set passes every row; on the example grid the rule
\* {colIdx 2, equals, "VM"} retains exactly rows 0 and 1.
C7_MatchesAll ==
    pc = "done" =>
        /\ out = (\A i \in DOMAIN filterRules : RuleHolds(arg, filterRules[i], TRUE))
        /\ ExampleRetained
        /\ filterRules = <<>> => out

\* two rules, the first holding only because case is ignored, the second
\* failing on a missing cell
C7_Witness ==
    /\ pc = "done" /\ Len(filterRules) = 2 /\ ~out
    /\ filterRules[1] = Rule(2, "contains", sVm) /\ At(arg, 2) = StrCell(sVM)
    /\ RuleHolds(arg, filterRules[1], TRUE) /\ ~RuleHolds(arg, filterRules[2], TRUE)

-----------------------------------------------------------------------------
(* Loading: the mapping dashboard, the chart-mapping dashboard or the simple *)
(* page is mounted (arg), sheets are dropped on it and the mapping is edited *)
(* and applied.  pc is the handler that ran last; on the simple page it is   *)
(* the position of fetchFromAzure.                                           *)

Components == {"xCostAnalyticsApp", "part_002", "route"}

sMeterCategory == <<"M", "e", "t", "e", "r", "C", "a", "t", "e", "g", "o", "r", "y">>
sSubscriptionName == <<"S", "u", "b", "s", "c", "r", "i", "p", "t", "i", "o", "n", "N", "a", "m", "e">>
sProd == <<"P", "r", "o", "d">>
sRegion == <<"R", "e", "g", "i", "o", "n">>

HeaderDateCostService == <<StrCell(sDate), StrCell(sCost), StrCell(sService)>>
HeaderMeterCostDate == <<StrCell(sMeterCategory), StrCell(PropCost), StrCell(sDate)>>
HeaderWithHole == <<StrCell(sSubscriptionName), Null, StrCell(sCost)>>
HeaderRegionServiceDateCost ==
    <<StrCell(sRegion), StrCell(ColServiceName), StrCell(ColUsageDate), StrCell(ColCost)>>
BlankRow == <<>>

RowNA == <<StrCell(sNA), StrCell(sNA), StrCell(<<>>)>>
RowNumberFirst == <<NumCell(2024), StrCell(s1000p5)>>
RowMeterVM == <<StrCell(sVM), StrCell(s1000p5), StrCell(s20240105)>>
RowMeterStorage == <<StrCell(sStorage), NumCell(7), StrCell(s20240201)>>
RowProd == <<StrCell(sProd), NumCell(0), StrCell(s1000p5)>>
RowRegionVM == <<StrCell(sProd), StrCell(sVM), StrCell(s20240105), StrCell(s10)>>

\* Row lists of a sheet below its first row, and of a billing response
Bodies ==
    { <<>>, ExampleGrid, <<RowNA>>, <<RowNumberFirst>>,
      <<RowMeterVM, RowMeterStorage>>, <<RowProd, BlankRow>> }

\* Sheets: the empty sheet, a header alone, the example with and without its
\* header, the example below a blank first row, a row that does not parse,
\* a sheet that starts with a number, known header names in another order
\* ("cost" in lower case), a header with a hole above a blank row, and the
\* names ServiceName / UsageDate / Cost behind a column of another name.
Sheets ==
    { <<>>,
      <<HeaderDateCostService>>,
      <<HeaderDateCostService>> \o ExampleGrid,
      ExampleGrid,
      <<BlankRow>> \o ExampleGrid,
      <<HeaderDateCostService, RowNA>>,
      <<RowNumberFirst>>,
      <<HeaderMeterCostDate, RowMeterVM, RowMeterStorage>>,
      <<HeaderMeterCostDate, RowNA>>,
      <<HeaderWithHole, RowProd, BlankRow>>,
      <<HeaderRegionServiceDateCost, RowRegionVM>> }

FetchResults ==
    {[columns |-> c, rows |-> b] :
        c \in {<<ColUsageDate, ColCost, ColServiceName>>, <<ColPreTaxCost, ColDate>>},
        b \in Bodies}

InitLoad ==
    /\ rtTz = 0
    /\ rtLegacy \in LegacyOutcomes
    /\ rtBatched \in BOOLEAN
    /\ rtReads = {}
    /\ rawRows = <<>>
    /\ headerRow = NullHeader
    /\ warnings = <<>>
    /\ primaryMetricIdx = NullIdx
    /\ metricsIdxs = <<>>
    /\ aggregation = "sum"
    /\ dateIdx = NoDate
    /\ monthBucket = TRUE
    /\ dateFormat = "auto"
    /\ selectedDims = <<>>
    /\ dimSearch = <<>>
    /\ topN = Rat(DefaultTopN, 1)
    /\ seriesVisible = <<>>
    /\ filterRules = <<>>
    /\ mapping = NullMapping
    /\ data = <<>>
    /\ extraFields = <<>>
    /\ chartMapping = ChartDefaults
    /\ previewRows = <<>>
    /\ showModal = FALSE
    /\ pc = "idle"
    /\ arg \in Components
    /\ out = <<>>

\* the effect on [rawRows, mapping] in the course of reader.onload.  A root
\* that batches the setters of the callback runs the effect once, on the final
\* state, where the mapping is set.  A root that renders on every setter runs
\* it after setRawRows and before setMapping, on the mapping of before the drop.
ModalAfterLoad(rows) ==
    showModal \/ (~rtBatched /\ ~mapping.has /\ rows # <<>>)

\* an onload that guesses only while there is no mapping yet
MappingOnLoadSets_keepsMapping(sheet) ==
    /\ arg = "xCostAnalyticsApp"
    /\ \E firstRow \in {FirstRowOf(sheet)} : \E rows \in {RowsOf(sheet)} :
       \E guessed \in {IF mapping.has THEN mapping ELSE detectFromData(firstRow, rows)} :
           /\ headerRow' = firstRow
           /\ rawRows' = rows
           /\ mapping' = guessed
           /\ data' = ParseOnLoad(rows, guessed)
           /\ showModal' = ModalAfterLoad(rows)
    /\ previewRows' = SliceFront(data', PreviewLen)
    /\ warnings' = <<>>
    /\ pc' = "loaded"
    /\ UNCHANGED <<selVars, extraFields, chartMapping, arg>>

\* mapping dashboard, reader.onload with a workbook that decodes
MappingOnLoadSets(sheet) ==
    /\ arg = "xCostAnalyticsApp"
    /\ \E firstRow \in {FirstRowOf(sheet)} : \E rows \in {RowsOf(sheet)} :
       \E guessed \in {detectFromData(firstRow, rows)} :
           /\ headerRow' = firstRow
           /\ rawRows' = rows
           /\ mapping' = guessed
           /\ data' = ParseOnLoad(rows, guessed)
           /\ showModal' = ModalAfterLoad(rows)
    /\ previewRows' = SliceFront(data', PreviewLen)
    /\ warnings' = <<>>
    /\ pc' = "loaded"
    /\ UNCHANGED <<selVars, extraFields, chartMapping, arg>>

MappingOnLoad(sheet) == MappingOnLoadSets(sheet) /\ UNCHANGED <<rtVars, out>>

\* chart-mapping dashboard, reader.onload with a workbook that decodes
ChartOnLoadSets(sheet) ==
    /\ arg = "part_002"
    /\ \E firstRow \in {FirstRowOf(sheet)} : \E rows \in {RowsOf(sheet)} :
       \E guessed \in {detectFromData(firstRow, rows)} :
       \E use \in {UseMapping(firstRow.cols, guessed)} :
           /\ headerRow' = firstRow
           /\ rawRows' = rows
           /\ IF firstRow.has
              THEN /\ mapping' = use
                   /\ extraFields' = ChosenExtra(firstRow.cols)
                   /\ chartMapping' = ChartDefaultsOf(firstRow.cols, use)
                   /\ data' = ChartParseOnLoad(rows, firstRow.cols, use)
              ELSE /\ mapping' = guessed
                   /\ data' = ChartParsePlain(rows, guessed)
                   /\ UNCHANGED <<extraFields, chartMapping>>
           /\ showModal' = ModalAfterLoad(rows)
    /\ previewRows' = SliceFront(data', PreviewLen)
    /\ warnings' = <<>>
    /\ pc' = "loaded"
    /\ UNCHANGED <<selVars, arg>>

ChartOnLoad(sheet) == ChartOnLoadSets(sheet) /\ UNCHANGED <<rtVars, out>>

\* a catch block that also empties the grid
OnLoadFailedSets_clearsGrid ==
    /\ arg \in {"xCostAnalyticsApp", "part_002"}
    /\ warnings' = <<FailedToParse>>
    /\ rawRows' = <<>>
    /\ pc' = "failed"
    /\ UNCHANGED <<headerRow, selVars, mapVars, arg>>

\* either dashboard, reader.onload with a workbook that does not decode
OnLoadFailedSets ==
    /\ arg \in {"xCostAnalyticsApp", "part_002"}
    /\ warnings' = <<FailedToParse>>
    /\ pc' = "failed"
    /\ UNCHANGED <<rawRows, headerRow, selVars, mapVars, arg>>

OnLoadFailed == OnLoadFailedSets /\ UNCHANGED <<rtVars, out>>

\* a mapping select of the modal, and on the chart-mapping dashboard the
\* effect on [headerRow, mapping] that follows it.  On a null mapping the
\* select leaves an object with the one field; the grid is empty then, and the
\* other fields are not read before the next load replaces the mapping.
SelectMapping(field, idx) ==
    /\ arg \in {"xCostAnalyticsApp", "part_002"}
    /\ showModal
    /\ mapping' = [mapping EXCEPT !.has = TRUE, ![field] = idx]
    /\ chartMapping' = IF arg = "part_002" /\ headerRow.has
                       THEN ChartDefaultsOf(headerRow.cols, mapping')
                       ELSE chartMapping
    /\ pc' = "edited"
    /\ UNCHANGED <<rtVars, gridVars, selVars, data, extraFields, previewRows, showModal,
                   arg, out>>

\* Cancel of the modal
CancelMapping ==
    /\ arg \in {"xCostAnalyticsApp", "part_002"}
    /\ showModal
    /\ showModal' = FALSE
    /\ pc' = "cancelled"
    /\ UNCHANGED <<rtVars, gridVars, selVars, mapping, data, extraFields, chartMapping,
                   previewRows, arg, out>>

\* Apply Mapping of the modal
ApplyMapping ==
    /\ arg \in {"xCostAnalyticsApp", "part_002"}
    /\ showModal
    /\ IF mapping.has
       THEN /\ data' = IF arg = "part_002"
                       THEN ChartParseApply(rawRows, headerRow, mapping)
                       ELSE ParseApply(rawRows, mapping)
            /\ previewRows' = SliceFront(data', PreviewLen)
            /\ warnings' = <<>>
       ELSE UNCHANGED <<data, previewRows, warnings>>
    /\ showModal' = FALSE
    /\ pc' = "applied"
    /\ UNCHANGED <<rtVars, rawRows, headerRow, selVars, mapping, extraFields, chartMapping,
                   arg, out>>

\* New Analysis
NewAnalysis ==
    /\ arg \in {"xCostAnalyticsApp", "part_002"}
    /\ data' = <<>>
    /\ rawRows' = <<>>
    /\ headerRow' = NullHeader
    /\ mapping' = NullMapping
    /\ previewRows' = <<>>
    /\ IF arg = "part_002"
       THEN extraFields' = <<>> /\ chartMapping' = ChartDefaults
       ELSE UNCHANGED <<extraFields, chartMapping>>
    /\ pc' = "reset"
    /\ UNCHANGED <<rtVars, warnings, selVars, showModal, arg, out>>

\* simple page, reader.onload
SimpleOnLoad(sheet) ==
    /\ arg = "route"
    /\ data' = SimpleParse(sheet)
    /\ UNCHANGED <<rtVars, gridVars, selVars, mapping, extraFields, chartMapping,
                   previewRows, showModal, fnVars>>

\* simple page, fetchFromAzure up to its await, with a scope typed in
FetchStart ==
    /\ arg = "route"
    /\ pc = "idle"
    /\ pc' = "fetching"
    /\ UNCHANGED <<rtVars, gridVars, selVars, mapVars, arg, out>>

\* simple page, fetchFromAzure after the response arrived
FetchDone(result) ==
    /\ arg = "route"
    /\ pc = "fetching"
    /\ data' = FetchParse(result)
    /\ pc' = "idle"
    /\ UNCHANGED <<rtVars, gridVars, selVars, mapping, extraFields, chartMapping,
                   previewRows, showModal, arg, out>>

\* simple page, fetchFromAzure when the request or its decoding throws
FetchFailed ==
    /\ arg = "route"
    /\ pc = "fetching"
    /\ pc' = "idle"
    /\ UNCHANGED <<rtVars, gridVars, selVars, mapVars, arg, out>>

NextLoad ==
    \/ \E sheet \in Sheets : MappingOnLoad(sheet)
    \/ \E sheet \in Sheets : ChartOnLoad(sheet)
    \/ OnLoadFailed
    \/ \E f \in MappingFields : \E i \in ColumnOptions : SelectMapping(f, i)
    \/ CancelMapping
    \/ ApplyMapping
    \/ NewAnalysis
    \/ \E sheet \in Sheets : SimpleOnLoad(sheet)
    \/ FetchStart
    \/ \E result \in FetchResults : FetchDone(result)
    \/ FetchFailed

SpecLoad == InitLoad /\ [][NextLoad]_vars

\* the number of columns of the loaded grid: the header's width when there is a
\* header, otherwise the width of the first data row; the detector's own
\* default of 3 for a grid without header and without rows
ColumnCount ==
    IF headerRow.has THEN Len(headerRow.cols)
    ELSE IF rawRows # <<>> THEN Len(rawRows[1]) ELSE 3

\* C1: after a load on either mapping dashboard each of dateIdx, costIdx and
\* serviceIdx of the mapping is an integer in [0, columnCount), for every grid
\* including the empty one and one whose header is zero columns wide.
C1_IndicesInRange ==
    (pc = "loaded" /\ arg \in {"xCostAnalyticsApp", "part_002"}) =>
        /\ mapping.has
        /\ \A f \in {"dateIdx", "costIdx", "serviceIdx"} : mapping[f] \in 0..(ColumnCount - 1)

CostOf(rec) == IF arg = "part_002" THEN rec[PropCost] ELSE NumVal(rec.cost)

\* C9: every path that turns a metric cell into a number gives a number that
\* is not NaN: the records built on drop, by Apply Mapping, on the simple drop
\* and from the billing response, and parseFloatSafe on every cell of the grid.
C9_NeverNaN ==
    /\ \A i \in DOMAIN data : CostOf(data[i]).k = "r" /\ ~IsNaN(CostOf(data[i]).r)
    /\ \A i \in DOMAIN rawRows : \A j \in DOMAIN rawRows[i] : ~IsNaN(parseFloatSafe(rawRows[i][j]))

\* the field names a freshly loaded file can give the chart mapping: the three
\* defaults and the file's own header names
OwnFieldNames ==
    {PropService, PropCost, PropDate} \cup
    (IF headerRow.has THEN HeaderNames(headerRow.cols) ELSE {})

\* C11: after a successful load on the chart-mapping dashboard the chart
\* mapping comes from the new file alone: the defaults service / cost / date
\* when the file has no header row, and otherwise for each of pieGroupBy,
\* valueField and dateField a default or a header name of the new file.
C11_ChartMappingOfNewFile ==
    (pc = "loaded" /\ arg = "part_002") =>
        /\ (~headerRow.has => chartMapping = ChartDefaults)
        /\ \A f \in {"pieGroupBy", "valueField", "dateField"} :
               chartMapping[f] \in OwnFieldNames

\* the known header name of each role, lower-cased, with the mapping field
KnownNames ==
    { [field |-> "dateIdx",    name |-> toLowerCase(ColUsageDate)],
      [field |-> "costIdx",    name |-> toLowerCase(ColCost)],
      [field |-> "serviceIdx", name |-> toLowerCase(ColServiceName)] }

\* C16: on the chart-mapping dashboard, after the load of a sheet with a
\* header row, a header cell named UsageDate, Cost or ServiceName (in any
\* case) is the column of the date, metric or category role in the mapping,
\* whatever the scores say.
C16_HeaderNamesOverride ==
    (pc = "loaded" /\ arg = "part_002" /\ headerRow.has) =>
        \A k \in KnownNames :
            HeaderIndexOf(headerRow.cols, k.name) >= 0 =>
                mapping[k.field] = HeaderIndexOf(headerRow.cols, k.name)

\* the mapping the last load set for the grid on screen
GuessedMapping ==
    IF arg = "part_002" /\ headerRow.has
    THEN UseMapping(headerRow.cols, detectFromData(headerRow, rawRows))
    ELSE detectFromData(headerRow, rawRows)

\* Apply Mapping was pressed on a grid with a mapping other than the guessed one
Overridden == pc = "applied" /\ rawRows # <<>> /\ mapping # GuessedMapping

(* A user who is set on overriding the guess.  The dialog has no button of   *)
(* its own: it opens only through the effect on [rawRows, mapping], when a   *)
(* grid arrives while the mapping is null.  So the user resets (which nulls  *)
(* the mapping), closes a dialog left over an empty grid, drops a sheet,     *)
(* picks another column in the dialog and presses Apply, and                 *)
(* takes each of these steps again and again whenever it is possible again   *)
(* and again.  All four are clicks and drops the page accepts at any time.   *)
ResetToRemap == mapping.has /\ ~showModal /\ NewAnalysis

CancelToRemap == showModal /\ rawRows = <<>> /\ CancelMapping

LoadToRemap(sheet) ==
    /\ ~mapping.has /\ ~showModal /\ RowsOf(sheet) # <<>>
    /\ MappingOnLoad(sheet)

SelectOther ==
    /\ showModal /\ rawRows # <<>>
    /\ \E f \in MappingFields : \E i \in ColumnOptions :
           SelectMapping(f, i) /\ mapping' # GuessedMapping

ApplyOther == showModal /\ rawRows # <<>> /\ mapping # GuessedMapping /\ ApplyMapping

\* sheets of short cells: the empty sheet, one row, one row under a header
RowShort == <<StrCell(sVM), NumCell(7), StrCell(s5)>>
RemapSheets == {<<>>, <<RowShort>>, <<HeaderDateCostService, RowShort>>, <<RowShort, RowProd>>}

\* the mapping dashboard; the dialog and its effect are the same lines on the
\* chart-mapping dashboard
InitRemap == InitLoad /\ arg = "xCostAnalyticsApp" /\ rtLegacy = InvalidDate

NextRemap ==
    \/ \E sheet \in RemapSheets : MappingOnLoad(sheet)
    \/ OnLoadFailed
    \/ \E f \in MappingFields : \E i \in ColumnOptions : SelectMapping(f, i)
    \/ CancelMapping
    \/ ApplyMapping
    \/ NewAnalysis

SpecRemap ==
    /\ InitRemap /\ [][NextRemap]_vars
    /\ SF_vars(ResetToRemap)
    /\ SF_vars(CancelToRemap)
    /\ \A sheet \in RemapSheets : SF_vars(LoadToRemap(sheet))
    /\ SF_vars(SelectOther)
    /\ SF_vars(ApplyOther)

\* C17: once a grid is loaded the guessed mapping can be overridden by hand:
\* the user who is set on it gets the mapping dialog open and applies a
\* mapping other than the guessed one.
C17_OverridePossible == (rawRows # <<>>) ~> Overridden

\* under a root that batches the setters of a callback the dialog never opens
DialogNeverOpensWhenBatched == rtBatched => ~showModal

-----------------------------------------------------------------------------
(* Filtering dashboard: the component with its handlers and its effects.     *)
(* A handler that changes what an effect depends on leaves pc at "loading"   *)
(* (the load) or "updating" (any other handler): the component has rendered  *)
(* and its effects are due; no other handler runs before they have run.      *)
(* Settled, pc is "idle" after construction, "loaded" after a load, "failed" *)
(* after a sheet failed to decode and "ready" after any other handler.       *)

MaxFilterRules == 1      \* filter rules that can be added

ColumnLabel(i) == <<"C", "o", "l", "u", "m", "n", " ">> \o NatToStr(i)

\* createDefaultHeader(rows)
createDefaultHeader(rows) ==
    [i \in 1..(IF rows # <<>> THEN Len(rows[1]) ELSE 3) |-> StrCell(ColumnLabel(i - 1))]

FailedToParseExcel == <<"F", "a", "i", "l", "e", "d", " ", "t", "o", " ", "p", "a", "r", "s", "e", " ", "E", "x", "c", "e", "l", " ", "f", "i", "l", "e", ":", " ">>

\* the ranking without its sort: the groups in the order the rows bring them
SortByAggDesc_unsorted(entries) == entries

\* entries sorted by agg, greatest first, equal ones in their given order
RECURSIVE SortByAggDesc(_)
SortByAggDesc(entries) ==
    IF entries = <<>> THEN <<>>
    ELSE LET e      == entries[Len(entries)]
             sorted == SortByAggDesc(SubSeq(entries, 1, Len(entries) - 1))
             ahead  == {i \in DOMAIN sorted : RatLE(e.agg, sorted[i].agg)}
             k      == IF ahead = {} THEN 0 ELSE CHOOSE i \in ahead : \A j \in ahead : j <= i
         IN  SubSeq(sorted, 1, k) \o <<e>> \o SubSeq(sorted, k + 1, Len(sorted))

\* the sequence without the later copies of an element
RECURSIVE Distinct(_)
Distinct(s) ==
    IF s = <<>> THEN <<>>
    ELSE LET front == Distinct(SubSeq(s, 1, Len(s) - 1))
         IN  IF s[Len(s)] \in Range(front) THEN front ELSE Append(front, s[Len(s)])

\* the end of slice(0, n) on an array of len elements, for a number n >= 0:
\* n is cut to a whole number and capped by the length
SliceEnd(n, len) ==
    LET whole == n.n \div n.d IN IF whole < len THEN whole ELSE len

\* lineSeriesData.seriesKeys for the given state of the component
seriesKeysOf(header, rows, dIdx, dims, metrics, primary, agg, n, rules) ==
    IF ~header.has \/ rows = <<>> \/ dIdx = NoDate THEN <<>>
    ELSE LET kept == SelectSeq(rows, LAMBDA row : matchesRow(row, rules))
         IN  IF dims # <<>>
             THEN IF primary = NullIdx THEN <<>>
                  ELSE LET totals == FoldTotals(
                               [i \in DOMAIN kept |->
                                   [key |-> buildGroupKey(kept[i], dims),
                                    val |-> IF agg = "count" THEN One
                                            ELSE parseFloatSafe(At(kept[i], primary))]], <<>>)
                           ranked == SortByAggDesc(
                               [i \in DOMAIN totals |->
                                   [g   |-> totals[i].key,
                                    agg |-> IF agg = "sum" THEN totals[i].sum
                                            ELSE IF agg = "count" THEN Rat(totals[i].count, 1)
                                            ELSE IF totals[i].count # 0
                                            THEN RatDivInt(totals[i].sum, totals[i].count)
                                            ELSE Zero]])
                           last == SliceEnd(n, Len(ranked))
                       IN  [i \in 1..last |-> ranked[i].g]
             ELSE IF metrics = <<>> \/ kept = <<>> THEN <<>>
             ELSE Distinct([i \in DOMAIN metrics |-> At(header.cols, metrics[i]).s])

seriesKeys ==
    seriesKeysOf(headerRow, rawRows, dateIdx, selectedDims, metricsIdxs, primaryMetricIdx,
                 aggregation, topN, filterRules)

\* a synchronisation that only fills an unset primary metric
SyncPrimary_fillsOnly(metrics, primary) ==
    IF metrics = <<>> THEN NullIdx
    ELSE IF primary = NullIdx THEN metrics[1]
    ELSE primary

\* the effect on [metricsIdxs, primaryMetricIdx]
SyncPrimary(metrics, primary) ==
    IF metrics = <<>> THEN NullIdx
    ELSE IF primary = NullIdx \/ primary \notin Range(metrics) THEN metrics[1]
    ELSE primary

\* the effect on [lineSeriesData.seriesKeys]: new keys visible, absent keys removed
SyncVisible(prev, keys) ==
    IF keys = <<>> THEN <<>>
    ELSE [k \in Range(keys) |-> IF k \in DOMAIN prev THEN prev[k] ELSE TRUE]

Settled == pc \in {"idle", "loaded", "failed", "ready"}

\* the selection panel is rendered
Panel == Settled /\ headerRow.has /\ rawRows # <<>>

Columns == 0..(Len(headerRow.cols) - 1)

FilterSheets == {<<HeaderDateCostService>> \o ExampleGrid, <<RowNumberFirst>>, <<>>}
MetricChoices == {1, 2}
DimChoices == {2}
DateOptionValues == {<<>>, <<"0">>}
FormatChoices == {"auto", "YYYY-MM-DD"}
TopNInputs == {<<"0">>}
SearchInputs == {<<>>, <<"s", "e", "r">>}
RuleColChoices == {2}
RuleOpChoices == {"equals"}
RuleValueChoices == {sVM}

Init ==
    /\ rtTz = 0
    /\ rtLegacy = InvalidDate
    /\ rtBatched = TRUE
    /\ rtReads = {}
    /\ rawRows = <<>>
    /\ headerRow = NullHeader
    /\ warnings = <<>>
    /\ metricsIdxs = <<>>
    /\ primaryMetricIdx = NullIdx
    /\ aggregation = "sum"
    /\ dateIdx = NoDate
    /\ monthBucket = TRUE
    /\ dateFormat = "auto"
    /\ selectedDims = <<>>
    /\ dimSearch = <<>>
    /\ topN = Rat(DefaultTopN, 1)
    /\ seriesVisible = <<>>
    /\ filterRules = <<>>
    /\ mapping = NullMapping
    /\ data = <<>>
    /\ extraFields = <<>>
    /\ chartMapping = ChartDefaults
    /\ previewRows = <<>>
    /\ showModal = FALSE
    /\ pc = "idle"
    /\ arg = <<>>
    /\ out = <<>>

\* reader.onload with a workbook that decodes
OnLoadSets(sheet) ==
    /\ Settled
    /\ headerRow' = IF FirstRowIsHeader(sheet) THEN HeaderOf(sheet[1])
                    ELSE HeaderOf(createDefaultHeader(sheet))
    /\ rawRows' = RowsOf(sheet)
    /\ metricsIdxs' = <<>>
    /\ primaryMetricIdx' = NullIdx
    /\ aggregation' = "sum"
    /\ dateIdx' = NoDate
    /\ monthBucket' = TRUE
    /\ dateFormat' = "auto"
    /\ selectedDims' = <<>>
    /\ dimSearch' = <<>>
    /\ topN' = Rat(DefaultTopN, 1)
    /\ seriesVisible' = <<>>
    /\ warnings' = <<>>
    /\ pc' = "loading"
    /\ UNCHANGED <<filterRules, mapVars, arg>>

\* reader.onload of a read that is not tracked: the drop and its read in one step
OnLoad(sheet) == OnLoadSets(sheet) /\ UNCHANGED <<rtVars, out>>

\* reader.onload with a workbook that does not decode
OnLoadFailureSets ==
    /\ Settled
    /\ warnings' = <<FailedToParseExcel>>
    /\ pc' = "failed"
    /\ UNCHANGED <<rawRows, headerRow, selVars, mapVars, arg>>

OnLoadFailure == OnLoadFailureSets /\ UNCHANGED <<rtVars, out>>

\* a metric checkbox
ToggleMetric(idx) ==
    /\ Panel /\ idx \in Columns
    /\ metricsIdxs' = IF idx \in Range(metricsIdxs)
                      THEN SelectSeq(metricsIdxs, LAMBDA i : i # idx)
                      ELSE Append(metricsIdxs, idx)
    /\ pc' = "updating"
    /\ UNCHANGED <<rtVars, gridVars, primaryMetricIdx, aggregation, dateIdx, monthBucket,
                   dateFormat, selectedDims, dimSearch, topN, seriesVisible, filterRules,
                   mapVars, arg, out>>

\* the primary metric select: "Select..." (NullIdx) or one of the metrics
SelectPrimary(val) ==
    /\ Panel /\ val \in {NullIdx} \cup Range(metricsIdxs) /\ val # primaryMetricIdx
    /\ primaryMetricIdx' = val
    /\ metricsIdxs' = IF val # NullIdx /\ val \notin Range(metricsIdxs)
                      THEN Append(metricsIdxs, val) ELSE metricsIdxs
    /\ pc' = "updating"
    /\ UNCHANGED <<rtVars, gridVars, aggregation, dateIdx, monthBucket, dateFormat,
                   selectedDims, dimSearch, topN, seriesVisible, filterRules, mapVars,
                   arg, out>>

SetAggregation(a) ==
    /\ Panel /\ a # aggregation
    /\ aggregation' = a
    /\ pc' = "updating"
    /\ UNCHANGED <<rtVars, gridVars, metricsIdxs, primaryMetricIdx, dateIdx, monthBucket,
                   dateFormat, selectedDims, dimSearch, topN, seriesVisible, filterRules,
                   mapVars, arg, out>>

\* the date select: setDateIdx(Number(e.target.value)), the value of the
\* option "(No date)" being the empty text
SetDateIdx(value) ==
    /\ Panel
    /\ value # (IF dateIdx = NoDate THEN <<>> ELSE NatToStr(dateIdx))
    /\ value = <<>> \/ DigitsVal(value) \in Columns
    /\ dateIdx' = NumberOfStr(value).n
    /\ pc' = "updating"
    /\ UNCHANGED <<rtVars, gridVars, metricsIdxs, primaryMetricIdx, aggregation,
                   monthBucket, dateFormat, selectedDims, dimSearch, topN, seriesVisible,
                   filterRules, mapVars, arg, out>>

\* the date format select, disabled without a date column
SetDateFormat(f) ==
    /\ Panel /\ dateIdx # NoDate /\ f # dateFormat
    /\ dateFormat' = f
    /\ pc' = "updating"
    /\ UNCHANGED <<rtVars, gridVars, metricsIdxs, primaryMetricIdx, aggregation, dateIdx,
                   monthBucket, selectedDims, dimSearch, topN, seriesVisible, filterRules,
                   mapVars, arg, out>>

\* the month bucket checkbox, disabled without a date column
SetMonthBucket(checked) ==
    /\ Panel /\ dateIdx # NoDate /\ checked # monthBucket
    /\ monthBucket' = checked
    /\ pc' = "updating"
    /\ UNCHANGED <<rtVars, gridVars, metricsIdxs, primaryMetricIdx, aggregation, dateIdx,
                   dateFormat, selectedDims, dimSearch, topN, seriesVisible, filterRules,
                   mapVars, arg, out>>

\* the dimension search box; no effect depends on it
SetDimSearch(text) ==
    /\ Panel /\ text # dimSearch
    /\ dimSearch' = text
    /\ pc' = "ready"
    /\ UNCHANGED <<rtVars, gridVars, metricsIdxs, primaryMetricIdx, aggregation, dateIdx,
                   monthBucket, dateFormat, selectedDims, topN, seriesVisible, filterRules,
                   mapVars, arg, out>>

\* a dimension checkbox, shown when its label contains the search text
ToggleDim(idx) ==
    /\ Panel /\ idx \in Columns
    /\ includes(toLowerCase(At(headerRow.cols, idx).s), toLowerCase(dimSearch))
    /\ selectedDims' = IF idx \in Range(selectedDims)
                       THEN SelectSeq(selectedDims, LAMBDA i : i # idx)
                       ELSE Append(selectedDims, idx)
    /\ pc' = "updating"
    /\ UNCHANGED <<rtVars, gridVars, metricsIdxs, primaryMetricIdx, aggregation, dateIdx,
                   monthBucket, dateFormat, dimSearch, topN, seriesVisible, filterRules,
                   mapVars, arg, out>>

\* Clear Dimensions
ClearDims ==
    /\ Panel
    /\ selectedDims' = <<>>
    /\ pc' = "updating"
    /\ UNCHANGED <<rtVars, gridVars, metricsIdxs, primaryMetricIdx, aggregation, dateIdx,
                   monthBucket, dateFormat, dimSearch, topN, seriesVisible, filterRules,
                   mapVars, arg, out>>

\* setTopN(Math.max(1, Number(e.target.value) || 1))
SetTopN(text) ==
    /\ Panel
    /\ LET v == NumberOfStr(text)
           w == IF IsNaN(v) \/ v.n = 0 THEN One ELSE v
       IN  topN' = IF RatLE(One, w) THEN w ELSE One
    /\ pc' = "updating"
    /\ UNCHANGED <<rtVars, gridVars, metricsIdxs, primaryMetricIdx, aggregation, dateIdx,
                   monthBucket, dateFormat, selectedDims, dimSearch, seriesVisible,
                   filterRules, mapVars, arg, out>>

addFilterRule ==
    /\ Panel /\ Len(filterRules) < MaxFilterRules
    /\ filterRules' = Append(filterRules, Rule(0, "contains", <<>>))
    /\ pc' = "updating"
    /\ UNCHANGED <<rtVars, gridVars, metricsIdxs, primaryMetricIdx, aggregation, dateIdx,
                   monthBucket, dateFormat, selectedDims, dimSearch, topN, seriesVisible,
                   mapVars, arg, out>>

clearFilterRules ==
    /\ Panel
    /\ filterRules' = <<>>
    /\ pc' = "updating"
    /\ UNCHANGED <<rtVars, gridVars, metricsIdxs, primaryMetricIdx, aggregation, dateIdx,
                   monthBucket, dateFormat, selectedDims, dimSearch, topN, seriesVisible,
                   mapVars, arg, out>>

\* a control of rule i: prev.map((x, idx) => (idx === i ? {...x, field} : x))
EditRule(i, r) ==
    /\ Panel /\ i \in DOMAIN filterRules /\ r # filterRules[i]
    /\ filterRules' = [filterRules EXCEPT ![i] = r]
    /\ pc' = "updating"
    /\ UNCHANGED <<rtVars, gridVars, metricsIdxs, primaryMetricIdx, aggregation, dateIdx,
                   monthBucket, dateFormat, selectedDims, dimSearch, topN, seriesVisible,
                   mapVars, arg, out>>

SetRuleCol(i, c) == i \in DOMAIN filterRules /\ EditRule(i, [filterRules[i] EXCEPT !.colIdx = c])
SetRuleOp(i, o) == i \in DOMAIN filterRules /\ EditRule(i, [filterRules[i] EXCEPT !.op = o])
SetRuleValue(i, v) == i \in DOMAIN filterRules /\ EditRule(i, [filterRules[i] EXCEPT !.value = v])

\* the remove button of rule i
RemoveRule(i) ==
    /\ Panel /\ i \in DOMAIN filterRules
    /\ filterRules' = [j \in 1..(Len(filterRules) - 1) |->
                          IF j < i THEN filterRules[j] ELSE filterRules[j + 1]]
    /\ pc' = "updating"
    /\ UNCHANGED <<rtVars, gridVars, metricsIdxs, primaryMetricIdx, aggregation, dateIdx,
                   monthBucket, dateFormat, selectedDims, dimSearch, topN, seriesVisible,
                   mapVars, arg, out>>

\* a series checkbox of the line chart; no effect depends on the toggles
ToggleSeries(key) ==
    /\ Panel /\ primaryMetricIdx # NullIdx /\ key \in Range(seriesKeys)
    /\ seriesVisible' = (key :> ~(key \in DOMAIN seriesVisible /\ seriesVisible[key]))
                        @@ seriesVisible
    /\ pc' = "ready"
    /\ UNCHANGED <<rtVars, gridVars, metricsIdxs, primaryMetricIdx, aggregation, dateIdx,
                   monthBucket, dateFormat, selectedDims, dimSearch, topN, filterRules,
                   mapVars, arg, out>>

\* Reset Selection
ResetSelection ==
    /\ Panel
    /\ metricsIdxs' = <<>>
    /\ primaryMetricIdx' = NullIdx
    /\ aggregation' = "sum"
    /\ dateIdx' = NoDate
    /\ monthBucket' = TRUE
    /\ dateFormat' = "auto"
    /\ selectedDims' = <<>>
    /\ dimSearch' = <<>>
    /\ topN' = Rat(DefaultTopN, 1)
    /\ seriesVisible' = <<>>
    /\ filterRules' = <<>>
    /\ warnings' = <<>>
    /\ pc' = "updating"
    /\ UNCHANGED <<rtVars, rawRows, headerRow, mapVars, arg, out>>

\* New Analysis
NewAnalysisFilter ==
    /\ Settled
    /\ rawRows' = <<>>
    /\ headerRow' = NullHeader
    /\ metricsIdxs' = <<>>
    /\ primaryMetricIdx' = NullIdx
    /\ aggregation' = "sum"
    /\ dateIdx' = NoDate
    /\ monthBucket' = TRUE
    /\ dateFormat' = "auto"
    /\ selectedDims' = <<>>
    /\ dimSearch' = <<>>
    /\ topN' = Rat(DefaultTopN, 1)
    /\ seriesVisible' = <<>>
    /\ filterRules' = <<>>
    /\ warnings' = <<>>
    /\ pc' = "updating"
    /\ UNCHANGED <<rtVars, mapVars, arg, out>>

\* the effects of one render: the primary metric follows the metrics, the
\* toggles follow the series keys; a changed primary metric renders again
RunEffects ==
    /\ ~Settled
    /\ primaryMetricIdx' = SyncPrimary(metricsIdxs, primaryMetricIdx)
    /\ seriesVisible' = SyncVisible(seriesVisible, seriesKeys)
    /\ pc' = IF primaryMetricIdx' # primaryMetricIdx THEN pc
             ELSE IF pc = "loading" THEN "loaded" ELSE "ready"
    /\ UNCHANGED <<rtVars, gridVars, metricsIdxs, aggregation, dateIdx, monthBucket,
                   dateFormat, selectedDims, dimSearch, topN, filterRules, mapVars, arg, out>>

Next ==
    \/ \E sheet \in FilterSheets : OnLoad(sheet)
    \/ OnLoadFailure
    \/ \E idx \in MetricChoices : ToggleMetric(idx)
    \/ \E val \in {NullIdx} \cup MetricChoices : SelectPrimary(val)
    \/ \E a \in Aggregations : SetAggregation(a)
    \/ \E value \in DateOptionValues : SetDateIdx(value)
    \/ \E f \in FormatChoices : SetDateFormat(f)
    \/ \E checked \in BOOLEAN : SetMonthBucket(checked)
    \/ \E text \in SearchInputs : SetDimSearch(text)
    \/ \E idx \in DimChoices : ToggleDim(idx)
    \/ ClearDims
    \/ \E text \in TopNInputs : SetTopN(text)
    \/ addFilterRule
    \/ clearFilterRules
    \/ \E i \in 1..MaxFilterRules : \E c \in RuleColChoices : SetRuleCol(i, c)
    \/ \E i \in 1..MaxFilterRules : \E o \in RuleOpChoices : SetRuleOp(i, o)
    \/ \E i \in 1..MaxFilterRules : \E v \in RuleValueChoices : SetRuleValue(i, v)
    \/ \E i \in 1..MaxFilterRules : RemoveRule(i)
    \/ \E key \in DOMAIN seriesVisible : ToggleSeries(key)
    \/ ResetSelection
    \/ NewAnalysisFilter
    \/ RunEffects

Spec == Init /\ [][Next]_vars

\* C10: after every successful load every selection is at its default (no
\* metric, no dimension, no date column, aggregation sum, auto format, monthly
\* buckets, Top-N 6, no series toggles) and there is no filter rule.
C10_LoadResetsSelections ==
    pc \in {"loading", "loaded"} =>
        /\ metricsIdxs = <<>> /\ primaryMetricIdx = NullIdx /\ selectedDims = <<>>
        /\ dateIdx = NoDate /\ aggregation = "sum" /\ dateFormat = "auto" /\ monthBucket
        /\ dimSearch = <<>> /\ topN = Rat(DefaultTopN, 1) /\ seriesVisible = <<>>
        /\ filterRules = <<>>

-----------------------------------------------------------------------------
(* Drops and their reads.  onDrop starts a FileReader read and returns; the  *)
(* read's onload runs later as one callback.  Reads of different files are   *)
(* in flight together and complete in any order.  arg is the dashboard that  *)
(* is mounted, rtReads the files being read, out the log of the drops and of *)
(* the completed reads.                                                      *)

MaxInFlight == 2
MaxDrops == 2

Dashboards == {"part_001", "xCostAnalyticsApp", "part_002"}

FileOf(sheet) == [ok |-> TRUE, sheet |-> sheet]
CorruptFile == [ok |-> FALSE, sheet |-> <<>>]     \* XLSX.read throws on it

DropSheets ==
    IF arg = "part_001" THEN FilterSheets
    ELSE {<<HeaderDateCostService>> \o ExampleGrid, ExampleGrid,
          <<HeaderMeterCostDate, RowMeterVM, RowMeterStorage>>,
          <<RowNumberFirst, RowMeterVM>>}

DropFiles == {CorruptFile} \cup {FileOf(sheet) : sheet \in DropSheets}

Event(ev, file) == [ev |-> ev, file |-> file]
DropCount == Cardinality({i \in DOMAIN out : out[i].ev = "drop"})

\* no effect of the last render is pending
Quiet == arg = "part_001" => Settled

InitDrop ==
    /\ rtTz = 0
    /\ rtLegacy = InvalidDate
    /\ rtBatched \in BOOLEAN
    /\ rtReads = {}
    /\ rawRows = <<>>
    /\ headerRow = NullHeader
    /\ warnings = <<>>
    /\ metricsIdxs = <<>>
    /\ primaryMetricIdx = NullIdx
    /\ aggregation = "sum"
    /\ dateIdx = NoDate
    /\ monthBucket = TRUE
    /\ dateFormat = "auto"
    /\ selectedDims = <<>>
    /\ dimSearch = <<>>
    /\ topN = Rat(DefaultTopN, 1)
    /\ seriesVisible = <<>>
    /\ filterRules = <<>>
    /\ mapping = NullMapping
    /\ data = <<>>
    /\ extraFields = <<>>
    /\ chartMapping = ChartDefaults
    /\ previewRows = <<>>
    /\ showModal = FALSE
    /\ pc = "idle"
    /\ arg \in Dashboards
    /\ out = <<>>

\* onDrop: reader.readAsArrayBuffer(file)
onDrop(file) ==
    /\ Quiet
    /\ DropCount < MaxDrops
    /\ Cardinality(rtReads) < MaxInFlight
    /\ file \notin rtReads
    /\ rtReads' = rtReads \cup {file}
    /\ out' = Append(out, Event("drop", file))
    /\ UNCHANGED <<rtTz, rtLegacy, rtBatched, gridVars, selVars, mapVars, pc, arg>>

\* reader.onload of one of the reads in flight, the workbook decodes
ReadDone(file) ==
    /\ Quiet
    /\ file \in rtReads /\ file.ok
    /\ rtReads' = rtReads \ {file}
    /\ out' = Append(out, Event("done", file))
    /\ \/ arg = "part_001" /\ OnLoadSets(file.sheet)
       \/ MappingOnLoadSets(file.sheet)
       \/ ChartOnLoadSets(file.sheet)
    /\ UNCHANGED <<rtTz, rtLegacy, rtBatched>>

\* reader.onload of one of the reads in flight, the workbook does not decode
ReadFailed(file) ==
    /\ Quiet
    /\ file \in rtReads /\ ~file.ok
    /\ rtReads' = rtReads \ {file}
    /\ out' = Append(out, Event("done", file))
    /\ \/ arg = "part_001" /\ OnLoadFailureSets
       \/ OnLoadFailedSets
    /\ UNCHANGED <<rtTz, rtLegacy, rtBatched>>

NextDrop ==
    \/ \E file \in DropFiles : onDrop(file)
    \/ \E file \in DropFiles : ReadDone(file)
    \/ \E file \in DropFiles : ReadFailed(file)
    \/ arg = "part_001" /\ \E idx \in MetricChoices : ToggleMetric(idx)
    \/ arg = "part_001" /\ \E idx \in DimChoices : ToggleDim(idx)
    \/ arg = "part_001" /\ addFilterRule
    \/ arg = "part_001" /\ NewAnalysisFilter
    \/ arg = "part_001" /\ RunEffects
    \/ \E f \in MappingFields : \E i \in ColumnOptions : SelectMapping(f, i)
    \/ CancelMapping
    \/ ApplyMapping
    \/ NewAnalysis

SpecDrop == InitDrop /\ [][NextDrop]_vars


LastEvent == IF out = <<>> THEN Event("none", CorruptFile) ELSE out[Len(out)]

\* the step is the onload of a read whose workbook does not decode
FailedReadStep == out' = Append(out, Event("done", CorruptFile))

\* C12: a failed decode changes nothing but the warnings list: the grid, the
\* header, the mapping, the parsed records, the preview, the chart mapping,
\* the dialog flag and every selection keep the values they had before the
\* drop, on all three dashboards.
C12_FailureKeepsState ==
    [][FailedReadStep => UNCHANGED <<rawRows, headerRow, selVars, mapVars>>]_vars

\* a read failed on a dashboard that had a grid and a selection or a mapping
C12_Witness ==
    /\ LastEvent = Event("done", CorruptFile)
    /\ pc = "failed" /\ rawRows # <<>> /\ warnings # <<>>
    /\ IF arg = "part_001" THEN filterRules # <<>> /\ metricsIdxs # <<>>
       ELSE mapping.has /\ data # <<>> /\ previewRows # <<>>


\* C13: a failed decode appends one warning to the list: the warnings of
\* before the failed drop are still there, in their places, and the list is
\* one longer, so that k failed drops in a row leave k warnings.
C13_FailureAppendsWarning ==
    [][FailedReadStep =>
          /\ Len(warnings') = Len(warnings) + 1
          /\ SubSeq(warnings', 1, Len(warnings)) = warnings]_vars


\* the warnings block is in the rendered tree: on the filtering dashboard it
\* sits inside the selection panel, on the mapping dashboards at top level
WarningsRendered ==
    /\ arg = "part_001" => (headerRow.has /\ rawRows # <<>>)
    /\ Len(warnings) > 0

\* C14: whenever the warnings list is non-empty, and so after a decode failure
\* that comes before any file was loaded, the warnings are rendered.
C14_WarningsShown == warnings # <<>> => WarningsRendered


\* every state variable of the mounted component has its useState value
InitialValues ==
    /\ rawRows = <<>> /\ headerRow = NullHeader /\ warnings = <<>>
    /\ metricsIdxs = <<>> /\ primaryMetricIdx = NullIdx /\ aggregation = "sum"
    /\ dateIdx = NoDate /\ monthBucket /\ dateFormat = "auto"
    /\ selectedDims = <<>> /\ dimSearch = <<>> /\ topN = Rat(DefaultTopN, 1)
    /\ seriesVisible = <<>> /\ filterRules = <<>>
    /\ mapping = NullMapping /\ data = <<>> /\ previewRows = <<>>
    /\ extraFields = <<>> /\ chartMapping = ChartDefaults /\ ~showModal

\* C15: after New Analysis, from any reachable state, every state variable
\* equals its initial value: grid, header, selections, filter rules, mapping,
\* records, preview, chart mapping, warnings and the mapping-dialog flag.
C15_NewAnalysisRestoresInitial ==
    [][(NewAnalysis \/ (arg = "part_001" /\ NewAnalysisFilter)) => InitialValues']_vars


\* the file of the read that completed last
DoneEvents == {i \in DOMAIN out : out[i].ev = "done"}
LastRead == out[CHOOSE i \in DoneEvents : \A j \in DoneEvents : j <= i].file

\* the header state a decoded sheet leaves on the mounted dashboard
HeaderFrom(sheet) ==
    IF arg # "part_001" THEN FirstRowOf(sheet)
    ELSE IF FirstRowIsHeader(sheet) THEN HeaderOf(sheet[1])
    ELSE HeaderOf(createDefaultHeader(sheet))

\* the mapping a decoded sheet leaves on the mounted mapping dashboard
MappingFrom(sheet) ==
    IF arg = "part_002" /\ FirstRowOf(sheet).has
    THEN UseMapping(sheet[1], detectFromData(FirstRowOf(sheet), RowsOf(sheet)))
    ELSE detectFromData(FirstRowOf(sheet), RowsOf(sheet))

\* the records a decoded sheet leaves under the mapping m
RecordsFrom(sheet, m) ==
    IF arg = "xCostAnalyticsApp" THEN ParseOnLoad(RowsOf(sheet), m)
    ELSE IF FirstRowOf(sheet).has THEN ChartParseOnLoad(RowsOf(sheet), sheet[1], m)
    ELSE ChartParsePlain(RowsOf(sheet), m)

\* grid, header, mapping, records and selections are those of the sheet
ProducedBy(sheet) ==
    /\ headerRow = HeaderFrom(sheet)
    /\ rawRows = RowsOf(sheet)
    /\ IF arg = "part_001"
       THEN /\ metricsIdxs = <<>> /\ primaryMetricIdx = NullIdx /\ selectedDims = <<>>
            /\ dateIdx = NoDate /\ aggregation = "sum" /\ dateFormat = "auto"
            /\ monthBucket /\ topN = Rat(DefaultTopN, 1)
       ELSE \E m \in {MappingFrom(sheet)} :
                /\ mapping = m
                /\ data = RecordsFrom(sheet, m)
                /\ previewRows = SliceFront(data, PreviewLen)

\* the date text of a record of either mapping dashboard
DateTextOf(rec) == IF arg = "part_002" THEN rec[PropDate].s ELSE rec.date

\* grid and header come from one sheet, and the records are rows of that grid
OfOneFile ==
    /\ \/ rawRows = <<>> /\ ~headerRow.has
       \/ \E sheet \in DropSheets : headerRow = HeaderFrom(sheet) /\ rawRows = RowsOf(sheet)
    /\ arg # "part_001" =>
          /\ Len(data) \in {0, Len(rawRows)}
          /\ \A i \in DOMAIN data :
                DateTextOf(data[i]) = StringOrEmpty(At(rawRows[i], mapping.dateIdx))

-----------------------------------------------------------------------------
(* Column detection: detectFromData on one decoded sheet *)

DetectRowKinds ==
    {<<StrCell(s20240105), StrCell(s10), StrCell(sVM)>>,
     <<StrCell(sVM), NumCell(7), StrCell(s5)>>,
     <<StrCell(s5), StrCell(sVM)>>,
     <<StrCell(sVM), StrCell(s5)>>,
     <<Null, NumCell(7)>>,
     <<>>}

RECURSIVE Repeat(_, _)
Repeat(row, k) == IF k = 0 THEN <<>> ELSE <<row>> \o Repeat(row, k - 1)

\* twelve rows: five with the number in column 0, five with it in column 1,
\* so that the scores tie over the first ten; rows eleven and twelve would
\* break the tie
LongGrid ==
    Repeat(<<NumCell(7), StrCell(sVM)>>, 5) \o Repeat(<<StrCell(sVM), NumCell(7)>>, 7)

\* eleven rows, the date of the date column only in the last one
LateDateGrid ==
    Repeat(<<NumCell(7), StrCell(sVM)>>, 10) \o <<<<NumCell(7), StrCell(s20240105)>>>>

DetectSheets ==
    {<<>>, LongGrid, LateDateGrid, <<<<StrCell(sVM), StrCell(sVM)>>>> \o LongGrid}
    \cup {<<a>> : a \in DetectRowKinds}
    \cup {<<a, b>> : a \in DetectRowKinds, b \in DetectRowKinds}
    \cup {<<a, b, c>> : a \in DetectRowKinds, b \in DetectRowKinds, c \in DetectRowKinds}

InitDetect ==
    /\ rtTz = 0
    /\ rtLegacy \in LegacyOutcomes
    /\ rtBatched = TRUE
    /\ rtReads = {}
    /\ rawRows = <<>>
    /\ headerRow = NullHeader
    /\ warnings = <<>>
    /\ primaryMetricIdx = NullIdx
    /\ metricsIdxs = <<>>
    /\ aggregation = "sum"
    /\ dateIdx = NoDate
    /\ monthBucket = TRUE
    /\ dateFormat = "auto"
    /\ selectedDims = <<>>
    /\ dimSearch = <<>>
    /\ topN = Rat(DefaultTopN, 1)
    /\ seriesVisible = <<>>
    /\ filterRules = <<>>
    /\ mapping = NullMapping
    /\ data = <<>>
    /\ extraFields = <<>>
    /\ chartMapping = ChartDefaults
    /\ previewRows = <<>>
    /\ showModal = FALSE
    /\ pc = "call"
    /\ arg \in DetectSheets
    /\ out = NullMapping

\* detectFromData(firstRow, rows) as reader.onload calls it
Detect ==
    /\ pc = "call"
    /\ pc' = "done"
    /\ out' = detectFromData(FirstRowOf(arg), RowsOf(arg))
    /\ UNCHANGED <<rtVars, gridVars, selVars, mapVars, arg>>

NextDetect == Detect
SpecDetect == InitDetect /\ [][NextDetect]_vars

\* the number of columns the detector looks at
DetectCols(sheet) ==
    IF FirstRowOf(sheet).has THEN Len(sheet[1])
    ELSE IF RowsOf(sheet) # <<>> THEN Len(RowsOf(sheet)[1]) ELSE 3

\* the cells of column c in the first min(rowCount, 10) rows that pass test
WindowCells(rows, c) ==
    {r \in 1..Len(rows) : r <= DetectRows /\ At(rows[r], c).k # "u"}

DateScoreOf(rows, c) ==
    Cardinality({r \in WindowCells(rows, c) :
                    \E s \in {trim(String(At(rows[r], c)))} : CountsAsDate(s)})

NumericScoreOf(rows, c) ==
    Cardinality({r \in WindowCells(rows, c) :
                    \E s \in {trim(String(At(rows[r], c)))} : CountsAsNumber(s)})

\* c is the lowest-index column of greatest score; score is indexed by column
FirstOfGreatest(score, c) ==
    /\ c \in DOMAIN score
    /\ \A e \in DOMAIN score : score[e] <= score[c]
    /\ \A e \in DOMAIN score : e < c => score[e] < score[c]

\* m is the guess the claim describes for the sheet
DetectedAsDescribed(sheet, m) ==
    \E rows \in {RowsOf(sheet)} : \E cols \in {DetectCols(sheet)} :
    \E ds \in {[c \in 0..(cols - 1) |-> DateScoreOf(rows, c)]} :
    \E ns \in {[c \in 0..(cols - 1) |-> NumericScoreOf(rows, c)]} :
    \E free \in {{c \in 0..(cols - 1) : c # m.dateIdx /\ c # m.costIdx}} :
        /\ FirstOfGreatest(ds, m.dateIdx)
        /\ FirstOfGreatest(ns, m.costIdx)
        /\ IF free = {} THEN m.serviceIdx = 0
           ELSE m.serviceIdx \in free /\ \A e \in free : m.serviceIdx <= e

-----------------------------------------------------------------------------
(* Top-N of the line series: the filtering dashboard on a grid of three      *)
(* groups, the group of greatest total not the first in the grid             *)

TopNSheet ==
    <<HeaderDateCostService, <<StrCell(s20240201), StrCell(s7), StrCell(sProd)>>>> \o ExampleGrid

\* what the user types into the Top N field
TopNTexts == {<<"0">>, <<"2">>, <<"1", ".", "5">>}

NextTopN ==
    \/ OnLoad(TopNSheet)
    \/ ToggleMetric(1)
    \/ SetDateIdx(<<"0">>)
    \/ ToggleDim(2)
    \/ \E a \in Aggregations : SetAggregation(a)
    \/ \E text \in TopNTexts : SetTopN(text)
    \/ addFilterRule
    \/ SetRuleCol(1, 2)
    \/ SetRuleValue(1, sVM)
    \/ RunEffects

SpecTopN == Init /\ [][NextTopN]_vars

\* the line chart draws one series per group
LineChartByGroup ==
    /\ Settled /\ headerRow.has /\ rawRows # <<>>
    /\ dateIdx # NoDate /\ selectedDims # <<>> /\ primaryMetricIdx # NullIdx

\* every kept group has a value at least that of every group left out
KeptOutrankDiscarded(keys, groups) ==
    /\ keys \subseteq {groups[i].group : i \in DOMAIN groups}
    /\ \A i \in DOMAIN groups : \A j \in DOMAIN groups :
          (groups[i].group \in keys /\ groups[j].group \notin keys)
              => RatLE(groups[j].value, groups[i].value)

\* the distinct group keys among the rows that pass the filter rules
GroupsOfFiltered ==
    {buildGroupKey(row, selectedDims) : row \in Range(FilteredRows(rawRows))}

\* the pie has one entry for each group, whatever topN is
PieHasEveryGroup(groups) ==
    /\ {groups[i].group : i \in DOMAIN groups} = GroupsOfFiltered
    /\ Len(groups) = Cardinality(GroupsOfFiltered)

\* C22 as stated: the number of series is min(N, G) for N = topN as it is
C22_TopN_Original ==
    /\ RatLE(One, topN)
    /\ LineChartByGroup =>
          \E keys \in {Range(seriesKeys)} : \E groups \in {pieData} :
              /\ Len(seriesKeys) = Cardinality(keys)
              /\ PieHasEveryGroup(groups)
              /\ IF RatLE(topN, Rat(Len(groups), 1)) THEN Rat(Cardinality(keys), 1) = topN
                 ELSE Cardinality(keys) = Len(groups)
              /\ KeptOutrankDiscarded(keys, groups)

\* C22 (amended): with a date column, a dimension and a primary metric
\* selected, seriesKeys holds exactly min(floor(N), G) groups for N = topN and
\* G distinct groups among the filtered rows, and every kept group's
\* aggregated value is >= that of every discarded group; topN >= 1 in every
\* reachable state; the pie keeps one entry for each of the G groups
\* whatever N is.
C22_TopN ==
    /\ RatLE(One, topN)
    /\ LineChartByGroup =>
          \E keys \in {Range(seriesKeys)} : \E groups \in {pieData} :
          \E whole \in {topN.n \div topN.d} :
              /\ Len(seriesKeys) = Cardinality(keys)
              /\ PieHasEveryGroup(groups)
              /\ Cardinality(keys) = IF whole < Len(groups) THEN whole ELSE Len(groups)
              /\ KeptOutrankDiscarded(keys, groups)

\* three groups, two series kept, the discarded group level with a kept one
C22_Witness ==
    /\ LineChartByGroup /\ aggregation = "sum"
    /\ topN = Rat(2, 1) /\ Len(pieData) = 3 /\ Len(seriesKeys) = 2
    /\ \E i \in DOMAIN pieData :
          pieData[i].group \notin Range(seriesKeys) /\ pieData[i].value = Rat(7, 1)

-----------------------------------------------------------------------------
(* Group keys: buildGroupKey on two rows under the same dimensions *)

sEmptyMarker == EmptyMarker                \* a cell whose text is "(empty)"
sVMVM == sVM \o KeySeparator \o sVM        \* a cell whose text holds the separator

KeyCells == {Null, StrCell(<<>>), StrCell(sEmptyMarker), StrCell(sVM), StrCell(sVMVM),
             StrCell(s5), NumCell(5)}
KeyRows == {<<a, b>> : a \in KeyCells, b \in KeyCells}
KeyDims == {<<>>, <<0>>, <<1>>, <<0, 1>>, <<1, 0>>}

InitKey ==
    /\ rtTz = 0
    /\ rtLegacy = InvalidDate
    /\ rtBatched = TRUE
    /\ rtReads = {}
    /\ rawRows = <<>>
    /\ headerRow = NullHeader
    /\ warnings = <<>>
    /\ primaryMetricIdx = NullIdx
    /\ metricsIdxs = <<>>
    /\ aggregation = "sum"
    /\ dateIdx = NoDate
    /\ monthBucket = TRUE
    /\ dateFormat = "auto"
    /\ selectedDims \in KeyDims
    /\ dimSearch = <<>>
    /\ topN = Rat(DefaultTopN, 1)
    /\ seriesVisible = <<>>
    /\ filterRules = <<>>
    /\ mapping = NullMapping
    /\ data = <<>>
    /\ extraFields = <<>>
    /\ chartMapping = ChartDefaults
    /\ previewRows = <<>>
    /\ showModal = FALSE
    /\ pc = "call"
    /\ arg \in {<<a, b>> : a \in KeyRows, b \in KeyRows}
    /\ out = <<>>

\* the grouping loop on the two rows: buildGroupKey(row, selectedDims) of each
GroupBoth ==
    /\ pc = "call"
    /\ pc' = "done"
    /\ out' = [i \in DOMAIN arg |-> buildGroupKey(arg[i], selectedDims)]
    /\ UNCHANGED <<rtVars, gridVars, selVars, mapVars, arg>>

NextKey == GroupBoth
SpecKey == InitKey /\ [][NextKey]_vars

\* the string value of a cell, null, undefined and "" being one value
CategoryText(cell) == IF cell.k = "u" THEN <<>> ELSE String(cell)

\* C30: two rows get the same group key only if, for every selected
\* dimension, their cells have the same string value (a missing cell and the
\* empty string counting as one value).
C30_KeysSeparateCategories ==
    (pc = "done" /\ out[1] = out[2]) =>
        \A i \in DOMAIN selectedDims :
            CategoryText(At(arg[1], selectedDims[i])) = CategoryText(At(arg[2], selectedDims[i]))


\* every cell of the sheet's first row is a string
FirstRowAllStrings(sheet) ==
    Len(sheet) >= 1 /\ \A c \in 1..Len(sheet[1]) : sheet[1][c].k # "n"

\* the labels Column 0 .. Column w-1
DefaultLabels(w) == [i \in 1..w |-> StrCell(<<"C", "o", "l", "u", "m", "n", " ">> \o IntToStr(i - 1))]

\* the width the columns of a sheet without header are counted by
DefaultWidth(sheet) == IF Len(sheet) >= 1 THEN Len(sheet[1]) ELSE 3

\* C24: after a successful load, a first row of strings only is the header
\* and the grid is the rest of the sheet in its order; otherwise the grid is
\* the whole sheet in its order and the columns are Column 0 .. Column w-1;
\* the data rows and the extracted header together are the rows of the sheet.
C24_HeaderDetection ==
    pc \in {"loading", "loaded"} =>
        \E sheet \in {LastRead.sheet} :
            /\ IF FirstRowAllStrings(sheet)
               THEN /\ headerRow.has /\ headerRow.cols = sheet[1]
                    /\ rawRows = SubSeq(sheet, 2, Len(sheet))
                    /\ Len(rawRows) + 1 = Len(sheet)
               ELSE /\ rawRows = sheet
                    /\ IF arg = "part_001"
                       THEN headerRow.has /\ headerRow.cols = DefaultLabels(DefaultWidth(sheet))
                       ELSE ~headerRow.has /\ ColumnOptions = 0..(DefaultWidth(sheet) - 1)
                    /\ Len(rawRows) = Len(sheet)

\* a sheet that starts with a number was loaded: no header row is taken from
\* it and the grid has its two rows in their order
C24_Witness ==
    /\ pc \in {"loading", "loaded"} /\ LastEvent.ev = "done"
    /\ ~FirstRowAllStrings(LastRead.sheet)
    /\ Len(rawRows) >= 1 /\ rawRows[1][1].k = "n"
    /\ rawRows = LastRead.sheet


\* ---------------------------------------------------------------------------
\* Primary metric and metric selection at rest
\* ---------------------------------------------------------------------------

\* C26: once the synchronising effect has run, the primary metric is unset
\* exactly when no metric is selected, and otherwise it is one of the selected
\* metrics.
C26_PrimaryFollowsMetrics ==
    Settled =>
        /\ (primaryMetricIdx = NullIdx) <=> (metricsIdxs = <<>>)
        /\ primaryMetricIdx # NullIdx => primaryMetricIdx \in Range(metricsIdxs)

\* two metrics are checked and the primary metric is the one checked second:
\* it was picked in the select, or the metric checked first was unchecked and
\* checked again
C26_Witness ==
    /\ Settled /\ Len(metricsIdxs) = 2
    /\ primaryMetricIdx = metricsIdxs[2]


\* ---------------------------------------------------------------------------
\* The option "(No date)" of the date select
\* ---------------------------------------------------------------------------

\* the state before any date column is chosen: no date index, the bar chart
\* shows the totals per group, no line series and no cumulative values
NoDateState ==
    /\ dateIdx = NoDate
    /\ barData = pieData
    /\ seriesKeys = <<>>
    /\ areaData = <<>>

\* C27: picking the option "(No date)" of the date select puts the component
\* back in the state without a date column.
C27_NoDateOption == [][SetDateIdx(<<>>) => NoDateState']_vars


\* ---------------------------------------------------------------------------
\* Apply Mapping: the cost of a record and the selected cost column
\* ---------------------------------------------------------------------------

\* the numeric value of the cell in the selected cost column, 0 when the cell
\* is not numeric
SelectedCost(row) ==
    LET rc == ParseFloatOf(At(row, mapping.costIdx))
    IN  NumVal(IF IsNaN(rc) THEN Zero ELSE rc)

AppliedCostsAreSelected ==
    /\ Len(data) = Len(rawRows)
    /\ \A i \in DOMAIN data : CostOf(data[i]) = SelectedCost(rawRows[i])

AppliedCostOnMappingDashboard ==
    (pc = "applied" /\ mapping.has /\ arg = "xCostAnalyticsApp") => AppliedCostsAreSelected


\* Apply Mapping on the chart-mapping dashboard with a cost column selected
\* other than the header's column Cost: a record carries the number of the
\* column named Cost
CostTakenFromNamedColumn ==
    /\ pc = "applied" /\ arg = "part_002" /\ mapping.has /\ headerRow.has
    /\ HeaderIndexOf(headerRow.cols, PropCost) >= 0
    /\ HeaderIndexOf(headerRow.cols, PropCost) # mapping.costIdx
    /\ \E i \in DOMAIN data :
           /\ CostOf(data[i]) # SelectedCost(rawRows[i])
           /\ CostOf(data[i]) =
                  NumVal(NumberOf(At(rawRows[i], HeaderIndexOf(headerRow.cols, PropCost))))


\* ---------------------------------------------------------------------------
\* Chart-mapping dashboard: Total Cost and the pie of byService
\* ---------------------------------------------------------------------------

\* d[name] ?? fallback of a record
PropOr(d, name, fallback) ==
    IF name \in DOMAIN d /\ d[name].k # "u" THEN d[name] ELSE fallback

\* Number(v) || 0 of a record value
NumberOrZero(v) == OrZero(IF v.k = "r" THEN v.r ELSE NumberOf(v))

RECURSIVE SumCosts(_)
SumCosts(costs) ==
    IF costs = <<>> THEN Zero ELSE RatAdd(SumCosts(SubSeq(costs, 1, Len(costs) - 1)), costs[Len(costs)])

\* data.reduce((s, d) => s + (Number(d[valueField] ?? d.cost) || 0), 0)
totalCost ==
    SumCosts([i \in DOMAIN data |->
                 NumberOrZero(PropOr(data[i], chartMapping.valueField, data[i][PropCost]))])

\* aggregateByField: map[String(d[fieldKey] ?? "(unknown)")] += Number(d[valueKey] ?? 0) || 0,
\* one entry per key
aggregateByField(recs, fieldKey, valueKey) ==
    LET totals == FoldTotals(
            [i \in DOMAIN recs |->
                [key |-> String(PropOr(recs[i], fieldKey, StrCell(UnknownKey))),
                 val |-> NumberOrZero(PropOr(recs[i], valueKey, NumCell(0)))]], <<>>)
    IN  [i \in DOMAIN totals |-> [service |-> totals[i].key, cost |-> totals[i].sum]]

\* aggregateByField(data, pieGroupBy, valueField).sort((a, b) => b.cost - a.cost)
byService ==
    LET groups == aggregateByField(data, chartMapping.pieGroupBy, chartMapping.valueField)
        sorted == SortByAggDesc([i \in DOMAIN groups |->
                                    [g |-> groups[i].service, agg |-> groups[i].cost]])
    IN  [i \in DOMAIN sorted |-> [service |-> sorted[i].g, cost |-> sorted[i].agg]]

\* availableFields of the chart-mapping selects
availableFields ==
    {PropService, PropCost, PropDate, PropSubscriptionName, PropMeterCategory}
        \cup (IF headerRow.has THEN HeaderNames(headerRow.cols) \ {<<>>} ELSE {})

\* the selects operated: the value field over every name, the pie's group
\* field over the names that hold cell texts
ChartSelects == {"valueField", "pieGroupBy"}
ChartFieldChoices(field) ==
    IF field = "pieGroupBy" THEN availableFields \ {PropCost} ELSE availableFields

\* a chart-mapping select: setChartMapping(c => ({...c, [field]: e.target.value}))
SetChartField(field, name) ==
    /\ arg = "part_002" /\ data # <<>> /\ ~showModal
    /\ name \in ChartFieldChoices(field) /\ name # chartMapping[field]
    /\ chartMapping' = [chartMapping EXCEPT ![field] = name]
    /\ pc' = "charted"
    /\ UNCHANGED <<rtVars, gridVars, selVars, mapping, data, extraFields, previewRows,
                   showModal, arg, out>>

ChartSheets ==
    { <<HeaderDateCostService>> \o ExampleGrid, ExampleGrid,
      <<HeaderMeterCostDate, RowMeterVM, RowMeterStorage>>, <<RowNumberFirst>> }

ChartNames ==
    {PropService, PropCost, PropDate, PropMeterCategory, sCost, sService}

InitChart == InitLoad /\ arg = "part_002"

NextChart ==
    \/ \E sheet \in ChartSheets : ChartOnLoad(sheet)
    \/ \E f \in MappingFields : \E i \in ColumnOptions : SelectMapping(f, i)
    \/ CancelMapping
    \/ ApplyMapping
    \/ NewAnalysis
    \/ \E field \in ChartSelects : \E name \in ChartNames : SetChartField(field, name)

SpecChart == InitChart /\ [][NextChart]_vars

\* C28: on the chart-mapping dashboard the Total Cost of the header card is
\* the sum of the per-category costs of byService.
C28_TotalIsSumOfPie ==
    arg = "part_002" =>
        totalCost = SumCosts([i \in DOMAIN byService |-> byService[i].cost])

\* the same for records that carry the value field
TotalIsSumWhereFieldPresent ==
    (arg = "part_002" /\ \A i \in DOMAIN data :
         PropOr(data[i], chartMapping.valueField, Null) # Null) =>
        totalCost = SumCosts([i \in DOMAIN byService |-> byService[i].cost])


\* ---------------------------------------------------------------------------
\* Series visibility at rest
\* ---------------------------------------------------------------------------

\* the line chart leaves a series out: seriesVisible[key] === false
Hidden(key) == key \in DOMAIN seriesVisible /\ ~seriesVisible[key]

\* the key set of seriesVisible is the current seriesKeys
VisibleKeysAreSeriesKeys == Settled => DOMAIN seriesVisible = Range(seriesKeys)

\* A user who loads one sheet, only adds to the selection, changes the primary
\* metric and the aggregation, and hides the series VM without showing it
\* again.  Under these inputs a series never leaves the series keys at rest.
SeriesSheet == <<HeaderDateCostService, <<StrCell(s20240105), NumCell(7), StrCell(sVM)>>>>
SeriesKey == sVM

NextSeries ==
    \/ rawRows = <<>> /\ OnLoad(SeriesSheet)
    \/ \E idx \in MetricChoices : idx \notin Range(metricsIdxs) /\ ToggleMetric(idx)
    \/ \E val \in {NullIdx} \cup MetricChoices : SelectPrimary(val)
    \/ \E a \in Aggregations : SetAggregation(a)
    \/ dateIdx = NoDate /\ SetDateIdx(<<"0">>)
    \/ \E idx \in DimChoices : idx \notin Range(selectedDims) /\ ToggleDim(idx)
    \/ ~Hidden(SeriesKey) /\ ToggleSeries(SeriesKey)
    \/ RunEffects

\* the visibility maps over the series keys of SeriesSheet
SeriesKeyPool == {SeriesKey, sCost, sService}
VisibilityMaps == UNION {[ks -> BOOLEAN] : ks \in SUBSET SeriesKeyPool}

\* a step of the effects with the new visibility map left open: it is enabled
\* exactly when RunEffects is, and every step of RunEffects is one
EffectsStep ==
    /\ ~Settled
    /\ primaryMetricIdx' = SyncPrimary(metricsIdxs, primaryMetricIdx)
    /\ seriesVisible' \in VisibilityMaps
    /\ pc' = IF primaryMetricIdx' # primaryMetricIdx THEN pc
             ELSE IF pc = "loading" THEN "loaded" ELSE "ready"
    /\ UNCHANGED <<rtVars, gridVars, metricsIdxs, aggregation, dateIdx, monthBucket,
                   dateFormat, selectedDims, dimSearch, topN, filterRules, mapVars, arg, out>>

\* the effects run after every render; the user keeps changing the aggregation
SpecSeries ==
    Init /\ [][NextSeries]_vars /\ WF_vars(EffectsStep)
         /\ WF_vars(\E a \in Aggregations : SetAggregation(a))

\* every step of the effects is a step of EffectsStep
EffectsAreEffectsSteps == [][RunEffects => EffectsStep]_vars

\* under these inputs the series stays among the series keys at rest
SeriesKeyStays ==
    [](Settled /\ SeriesKey \in Range(seriesKeys)
           => [](Settled => SeriesKey \in Range(seriesKeys)))

\* C29: at rest the keys of seriesVisible are the series keys, and a series
\* the user has hidden stays hidden for as long as it is among the series
\* keys.
C29_HiddenStaysHidden ==
    /\ []VisibleKeysAreSeriesKeys
    /\ [](Settled /\ Hidden(SeriesKey)
              => [](Settled /\ SeriesKey \in Range(seriesKeys) => Hidden(SeriesKey)))

====
